---- MODULE Spec2Model ----
(***************************************************************************)
(* State-machine model of @ldesign/validator: the rule-chain executor      *)
(* (src/src/core/Validator.ts), the result cache (src/src/core/Cache.ts),  *)
(* the cache-key hasher (src/src/utils/hash.ts) and the cross-field rules  *)
(* (src/unnamed/part_008).                                                 *)
(*                                                                         *)
(* A JavaScript string is a sequence of UTF-16 code units, so strings that *)
(* reach the hasher are sequences of character codes.  Symbolic tags       *)
(* (result codes, message ids) are TLA+ strings.                           *)
(***************************************************************************)
EXTENDS Integers, Sequences, FiniteSets, TLC

VARIABLES
    rules,      \* Validator.rules: the append-only chain
    opts,       \* Validator options: cache configured?, pool configured?, stopOnFirstError, onError hook
    cache,      \* the RuleCache object: entries (Map, insertion order), maxSize, ttl, enabled, hits, misses, timer (cleanupTimer is set)
    now,        \* the clock read by Date.now()
    last,       \* observation of the latest validate()/validateSync() call
    cop,        \* observation of the latest direct cache call (get/has/set)
    setLog,     \* history of the direct cache calls: keys of the set() calls that stored, in order; swept: the keys whose lapsed entry a get(), has() or cleanExpired() deleted; frozen: the entries at the latest disable(); phase: "disabled" after it, "reenabled" after the enable() that followed, "fresh" once entries were stored or deleted since; destroyed; beat: flips at every run of the autoCleanup timer
    par,        \* the validateBatch()/validateParallel() call in progress or ended: its values, its tasks, its result
    pool,       \* the ResultPool: free list, maxSize, enabled, counters; heap: the result objects ever created; given: those acquire() has handed out
    sch,        \* the SchemaValidator: its schema as declared, its options, and out, the observation of its latest validate()
    gen,        \* observation of the two latest direct generateKey() calls
    thr         \* the closure of throttle(validator, Limit): lastCallTime, timeoutId, lastArgs, lastResult, pendingResolvers, the timers set, the validate() calls in flight; starts: the times at which the underlying validate() was started

vars == <<rules, opts, cache, now, last, cop, setLog, par, pool, sch, gen, thr>>

-----------------------------------------------------------------------------
(* Bounds of the model *)

MaxRules == 2       \* longest chain built with rule()
MaxCap   == 2       \* largest maxSize a cache is configured with
MaxClock == 2       \* the clock runs from 0 to MaxClock
MaxSets  == 3       \* direct set() calls per behaviour
MaxReads == 1       \* direct get()/has() calls per behaviour
MaxCalls == 2       \* validate()/validateSync() calls per behaviour
MaxPoolOps == 5    \* acquire() and release() calls made on a pool used directly
MaxInitial == 2    \* ResultPool initialSize
MaxPoolSize == 2   \* ResultPool maxSize
MaxFields == 2     \* fields of a schema
MaxItems == 2      \* elements of an array value
MaxMin == 2        \* largest length an element rule asks for
Limit == 2         \* the limit a throttled validator is created with
MaxThrottled == 3  \* calls made on a throttled validator
MaxSpan == 4       \* the clock of a throttled validator runs from Limit to Limit + MaxSpan

-----------------------------------------------------------------------------
(* JavaScript values *)

Null      == [t |-> "null",      s |-> <<>>]
Undefined == [t |-> "undefined", s |-> <<>>]
Str(s)    == [t |-> "string",    s |-> s]

StrEmpty == <<>>                                        \* ''
StrX     == <<120>>                                     \* 'x'
StrY     == <<121>>                                     \* 'y'
StrA     == <<97>>                                      \* 'a'
StrB     == <<98>>                                      \* 'b'
Str1     == <<49>>                                      \* '1'
StrNull  == <<110, 117, 108, 108>>                      \* 'null'
StrUndef == <<117, 110, 100, 101, 102, 105, 110, 101, 100>>   \* 'undefined'
StrMatchField == <<109, 97, 116, 99, 104, 70, 105, 101, 108, 100>>   \* 'matchField'
StrUnknown    == <<117, 110, 107, 110, 111, 119, 110>>               \* 'unknown'
Colon    == <<58>>                                      \* ':'

\* an array value: its elements
Arr(items) == [t |-> "array", s |-> items]

\* a number value: a natural number n
Num(n) == [t |-> "number", s |-> <<n>>]

\* a boolean value
Bool(b) == [t |-> "boolean", s |-> <<IF b THEN 1 ELSE 0>>]

\* a Date object: its time value
Date(ms) == [t |-> "date", s |-> <<ms>>]

\* JavaScript truthiness of a value (strings: non-empty; numbers: non-zero;
\* booleans: true; arrays and Dates: always)
Truthy(v) ==
    \/ v.t \in {"array", "date"}
    \/ v.t = "string" /\ v.s # <<>>
    \/ v.t = "number" /\ v.s # <<0>>
    \/ v.t = "boolean" /\ v.s # <<0>>

-----------------------------------------------------------------------------
(* utils/hash.ts *)

\* One round of djb2, hash = ((hash << 5) + hash) + c, on a 32-bit word kept
\* as two 16-bit halves <<high, low>> (the final `>>> 0` keeps 32 bits).
Djb2Step(h, c) ==
    LET lo == h[2] * 33 + c
        hi == h[1] * 33 + (lo \div 65536)
    IN  <<hi % 65536, lo % 65536>>

RECURSIVE Djb2From(_, _, _)
Djb2From(h, str, i) ==
    IF i > Len(str) THEN h ELSE Djb2From(Djb2Step(h, str[i]), str, i + 1)

\* djb2Hash(str): starts from 5381
djb2Hash(str) == Djb2From(<<0, 5381>>, str, 1)

\* the character of one base-36 digit: '0'..'9', 'a'..'z'
DigitChar(d) == IF d < 10 THEN 48 + d ELSE 87 + d

\* Number.prototype.toString(36) of the 32-bit word <<high, low>>
RECURSIVE ToBase36(_)
ToBase36(h) ==
    LET qhi == h[1] \div 36
        t   == (h[1] % 36) * 65536 + h[2]
        qlo == t \div 36
        rem == t % 36
    IN  IF qhi = 0 /\ qlo = 0
        THEN <<DigitChar(rem)>>
        ELSE Append(ToBase36(<<qhi, qlo>>), DigitChar(rem))

\* String(n) of a natural number: its decimal digits
RECURSIVE Digits(_)
Digits(n) == IF n < 10 THEN <<48 + n>> ELSE Append(Digits(n \div 10), 48 + (n % 10))

\* Array.prototype.join(',') of strings
RECURSIVE JoinComma(_)
JoinComma(strs) ==
    IF strs = <<>> THEN <<>>
    ELSE IF Len(strs) = 1 THEN strs[1]
    ELSE strs[1] \o <<44>> \o JoinComma(Tail(strs))

\* valueToString(value): null, undefined, String(value) of a string, number or
\* boolean, the bracketed elements of an array of up to 10 elements, and
\* '{}' for a Date, which is an object without own enumerable keys
RECURSIVE valueToString(_)
valueToString(value) ==
    CASE value.t = "null"      -> StrNull
      [] value.t = "undefined" -> StrUndef
      [] value.t = "number"    -> Digits(value.s[1])
      [] value.t = "boolean"   -> IF value.s = <<1>> THEN <<116, 114, 117, 101>>
                                  ELSE <<102, 97, 108, 115, 101>>
      [] value.t = "array"     ->
            <<91>> \o JoinComma([i \in 1..Len(value.s) |-> valueToString(value.s[i])]) \o <<93>>
      [] value.t = "date"      -> <<123, 125>>
      [] OTHER                 -> value.s

\* fastHash(value, ruleName, params): `${ruleName}:${valueStr}:${paramsStr}`
fastHash(value, ruleName, params) ==
    LET valueStr  == valueToString(value)
        paramsStr == IF Truthy(params) THEN valueToString(params) ELSE <<>>
        combined  == ruleName \o Colon \o valueStr \o Colon \o paramsStr
    IN  ToBase36(djb2Hash(combined))

\* RuleCache.generateKey(value, ruleName) as the Validator calls it (no params)
generateKey(value, ruleName) == fastHash(value, ruleName, Undefined)

\* the values validated and the rule names in use, and generateKey tabulated
\* over them: the key of a (value, rule name) pair is computed once
HashedValues == {Null, Undefined, Str(StrEmpty), Str(StrX), Str(StrY), Str(Str1), Num(1)}
HashedNames  == {StrA, StrB, StrMatchField}
KeyOf == [value \in HashedValues, ruleName \in HashedNames |-> generateKey(value, ruleName)]

\* RuleCache.generateKey(value, ruleName, params); an absent params is undefined
generateKeyWith(value, ruleName, params) == fastHash(value, ruleName, params)

\* no generateKey() call observed yet
NoCallOfKey == [made |-> FALSE, value |-> Undefined, name |-> <<>>, params |-> Undefined, key |-> <<>>]
NoGen == [prev |-> NoCallOfKey, latest |-> NoCallOfKey]

-----------------------------------------------------------------------------
(* core/Cache.ts: RuleCache.  cache.entries is the Map, in insertion order;  *)
(* an entry is [key, value, expireAt] plus the history field `at`, the time  *)
(* of the set() that wrote it.  ttl = 0 stands for an absent (or zero) ttl:  *)
(* the code only ever tests `this.ttl` for truthiness.                       *)

NoExpire == 0 - 1                       \* expireAt: undefined

\* position of `key` in the Map, 0 when absent
IndexOf(entries, key) ==
    IF \E i \in 1..Len(entries) : entries[i].key = key
    THEN CHOOSE i \in 1..Len(entries) : entries[i].key = key
    ELSE 0

\* Map.delete of the entry at position i
RemoveAt(entries, i) ==
    [j \in 1..(Len(entries) - 1) |-> IF j < i THEN entries[j] ELSE entries[j + 1]]

Keys(entries) == {entries[i].key : i \in 1..Len(entries)}

\* an expiry test that never fires
LapsedNever(entry, t) == FALSE

\* `entry.expireAt && entry.expireAt < Date.now()`
Lapsed(entry, t) ==
    entry.expireAt # NoExpire /\ entry.expireAt # 0 /\ entry.expireAt < t

\* a get() that refreshes the entry it returns (least-recently-used order)
CacheGetLru(c, key, t) ==
    LET i == IndexOf(c.entries, key) IN
    IF ~c.enabled
    THEN [cache |-> c, found |-> FALSE, hit |-> 0]
    ELSE IF i = 0
    THEN [cache |-> [c EXCEPT !.misses = @ + 1], found |-> FALSE, hit |-> 0]
    ELSE IF Lapsed(c.entries[i], t)
    THEN [cache |-> [c EXCEPT !.entries = RemoveAt(@, i), !.misses = @ + 1],
          found |-> FALSE, hit |-> 0]
    ELSE [cache |-> [c EXCEPT !.hits = @ + 1,
                              !.entries = Append(RemoveAt(@, i), c.entries[i])],
          found |-> TRUE, hit |-> Len(c.entries)]

\* a get() that reports a lapsed entry absent but leaves it in the Map
CacheGetKeepLapsed(c, key, t) ==
    LET i == IndexOf(c.entries, key) IN
    IF ~c.enabled
    THEN [cache |-> c, found |-> FALSE, hit |-> 0]
    ELSE IF i = 0 \/ Lapsed(c.entries[i], t)
    THEN [cache |-> [c EXCEPT !.misses = @ + 1], found |-> FALSE, hit |-> 0]
    ELSE [cache |-> [c EXCEPT !.hits = @ + 1], found |-> TRUE, hit |-> i]

\* RuleCache.get(key) at time t: the cache afterwards, and what is returned
CacheGet(c, key, t) ==
    LET i == IndexOf(c.entries, key) IN
    IF ~c.enabled
    THEN [cache |-> c, found |-> FALSE, hit |-> 0]
    ELSE IF i = 0
    THEN [cache |-> [c EXCEPT !.misses = @ + 1], found |-> FALSE, hit |-> 0]
    ELSE IF Lapsed(c.entries[i], t)
    THEN [cache |-> [c EXCEPT !.entries = RemoveAt(@, i), !.misses = @ + 1],
          found |-> FALSE, hit |-> 0]
    ELSE [cache |-> [c EXCEPT !.hits = @ + 1], found |-> TRUE, hit |-> i]

\* a set() that stores on a disabled cache too
CacheSetAlways(c, key, value, t) ==
    LET full   == Len(c.entries) >= c.maxSize
        kept   == IF full /\ Len(c.entries) > 0 THEN Tail(c.entries) ELSE c.entries
        expire == IF c.ttl # 0 THEN t + c.ttl ELSE NoExpire
        entry  == [key |-> key, value |-> value, expireAt |-> expire, at |-> t]
        i      == IndexOf(kept, key)
    IN  [c EXCEPT !.entries = IF i = 0 THEN Append(kept, entry)
                              ELSE [kept EXCEPT ![i] = entry]]

\* a set() that never evicts
CacheSetNoEvict(c, key, value, t) ==
    LET expire == IF c.ttl # 0 THEN t + c.ttl ELSE NoExpire
        entry  == [key |-> key, value |-> value, expireAt |-> expire, at |-> t]
        i      == IndexOf(c.entries, key)
    IN  IF ~c.enabled
        THEN c
        ELSE [c EXCEPT !.entries = IF i = 0 THEN Append(@, entry)
                                   ELSE [@ EXCEPT ![i] = entry]]

\* RuleCache.set(key, value) at time t
CacheSet(c, key, value, t) ==
    LET full   == Len(c.entries) >= c.maxSize
        kept   == IF full /\ Len(c.entries) > 0 THEN Tail(c.entries) ELSE c.entries
        expire == IF c.ttl # 0 THEN t + c.ttl ELSE NoExpire
        entry  == [key |-> key, value |-> value, expireAt |-> expire, at |-> t]
        i      == IndexOf(kept, key)
    IN  IF ~c.enabled
        THEN c
        ELSE [c EXCEPT !.entries = IF i = 0 THEN Append(kept, entry)
                                   ELSE [kept EXCEPT ![i] = entry]]

\* RuleCache.has(key) at time t
CacheHas(c, key, t) ==
    LET i == IndexOf(c.entries, key) IN
    IF ~c.enabled \/ i = 0
    THEN [cache |-> c, found |-> FALSE]
    ELSE IF Lapsed(c.entries[i], t)
    THEN [cache |-> [c EXCEPT !.entries = RemoveAt(@, i)], found |-> FALSE]
    ELSE [cache |-> c, found |-> TRUE]

\* RuleCache.cleanExpired(): the Map without its lapsed entries
CleanExpired(c, t) ==
    LET Live(entry) == ~Lapsed(entry, t) IN
    IF c.ttl = 0 THEN c ELSE [c EXCEPT !.entries = SelectSeq(@, Live)]

\* RuleCache.getStats(): hitRate is the percentage in hundredths, as
\* toFixed(2) rounds it ('50.00%' is 5000)
getStats(c) ==
    LET total == c.hits + c.misses IN
    [size |-> Len(c.entries), maxSize |-> c.maxSize, hits |-> c.hits, misses |-> c.misses,
     hitRate |-> IF total > 0 THEN (c.hits * 20000 + total) \div (2 * total) ELSE 0,
     enabled |-> c.enabled]

\* RuleCache.clear()
CacheClear(c) == [c EXCEPT !.entries = <<>>, !.hits = 0, !.misses = 0]

\* RuleCache.delete(key)
CacheDelete(c, key) ==
    IF IndexOf(c.entries, key) = 0 THEN c
    ELSE [c EXCEPT !.entries = RemoveAt(@, IndexOf(c.entries, key))]

\* RuleCache.resetStats()
resetStats(c) == [c EXCEPT !.hits = 0, !.misses = 0]

\* RuleCache.enable() and RuleCache.disable()
enable(c) == [c EXCEPT !.enabled = TRUE]
disable(c) == [c EXCEPT !.enabled = FALSE]

\* a destroy() that leaves the timer running
destroyKeepTimer(c) == CacheClear(c)

\* RuleCache.destroy()
destroy(c) == CacheClear([c EXCEPT !.timer = FALSE])

\* new RuleCache({ maxSize, ttl }): enabled defaults to true
NewCache(maxSize, ttl) ==
    [entries |-> <<>>, maxSize |-> maxSize, ttl |-> ttl, enabled |-> TRUE,
     hits |-> 0, misses |-> 0, timer |-> FALSE]

\* new RuleCache({ maxSize, ttl, autoCleanup }): the timer is started when
\* autoCleanup is set and ttl is truthy
NewRuleCache(maxSize, ttl, autoCleanup) ==
    [NewCache(maxSize, ttl) EXCEPT !.timer = autoCleanup /\ ttl # 0]

-----------------------------------------------------------------------------
(* types/index.ts: ValidationResult, ValidationRule, ValidationContext.      *)
(* An absent (undefined) message or code is ""; meta is a record whose kind  *)
(* tells which object it is.                                                 *)

NoMeta == [kind |-> "undefined", path |-> "", v |-> Undefined, error |-> "", rule |-> <<>>]

\* thrown values: an Error object (its message is <<tag, rule>>), or null/undefined
NoErr      == [nullish |-> FALSE, tag |-> "none", rule |-> <<>>]
PredError  == [nullish |-> FALSE, tag |-> "PredicateError", rule |-> <<>>]
NullThrown == [nullish |-> TRUE,  tag |-> "nullish", rule |-> <<>>]
HookError  == [nullish |-> FALSE, tag |-> "HookError", rule |-> <<>>]
TypeError  == [nullish |-> FALSE, tag |-> "TypeError", rule |-> <<>>]

\* the fields of formData the cross-field rules read
Fields == {"p"}

\* a context without formData (or no context at all)
NoContext == [hasForm |-> FALSE, form |-> [f \in Fields |-> Undefined]]
FormData(v) == [hasForm |-> TRUE, form |-> [f \in Fields |-> v]]

\* a rule: name (<<>> = absent or ''), required, rule-level message ("" = absent;
\* fn: the message is a function of the value and the context instead),
\* and its predicate: kind is "required", "matchField", "requiredIf" (with the
\* field path they read), or, for a caller-supplied predicate, how it ends
Rule(name, required, kind) ==
    [name |-> name, required |-> required, message |-> "", fn |-> FALSE,
     kind |-> kind, path |-> "p"]

\* the text of a value inside a message
Text(value) ==
    CASE value.t = "undefined"            -> "undefined"
      [] value.t = "null"                 -> "null"
      [] value.t = "string" /\ value.s = <<120>> -> "x"
      [] value.t = "string" /\ value.s = <<121>> -> "y"
      [] OTHER                            -> "?"

\* a message function: (value, context) => `${value} vs ${context?.formData?.p}`
FnMessage(value, ctx) ==
    Text(value) \o " vs " \o Text(IF ctx.hasForm THEN ctx.form["p"] ELSE Undefined)

-----------------------------------------------------------------------------
(* core/Validator.ts *)

\* an emptiness test that overlooks the empty string
isEmptyNullish(value) == value = Null \/ value = Undefined

\* Validator.isEmpty(value)
isEmpty(value) == value = Null \/ value = Undefined \/ value = Str(StrEmpty)

\* Validator.createResult(valid, { message, code, meta })
createResult(valid, message, code, meta) ==
    [valid |-> valid, message |-> message, code |-> code, meta |-> meta]

\* a required check that lets every value through
checkRequiredNever(value, rule, ctx) ==
    [failed |-> FALSE, res |-> createResult(TRUE, "", "", NoMeta)]

\* Validator.checkRequired(value, rule, context): failed, and the REQUIRED result
checkRequired(value, rule, ctx) ==
    IF rule.required /\ isEmpty(value)
    THEN [failed |-> TRUE,
          res |-> createResult(FALSE,
                     IF rule.fn THEN FnMessage(value, ctx)
                     ELSE IF rule.message # "" THEN rule.message ELSE "MSG_REQUIRED_FIELD",
                     "REQUIRED", NoMeta)]
    ELSE [failed |-> FALSE, res |-> createResult(TRUE, "", "", NoMeta)]

\* a merge that leaves the result's message as it is
mergeRuleMessageKeep(result, rule, value, ctx) == result

\* Validator.mergeRuleMessage(result, rule, value, context)
mergeRuleMessage(result, rule, value, ctx) ==
    [result EXCEPT !.message = IF rule.fn THEN FnMessage(value, ctx)
                               ELSE IF rule.message # "" THEN rule.message
                               ELSE result.message]

\* rules/basic.ts: required(value)
required(value) ==
    LET valid == value # Null /\ value # Undefined /\ value # Str(StrEmpty) IN
    createResult(valid, IF valid THEN "" ELSE "MSG_REQUIRED_FIELD", "REQUIRED", NoMeta)

\* cross-field rules: getFieldValue(fieldPath, context), for a path of one segment
getFieldValue(fieldPath, ctx) ==
    IF ~ctx.hasForm THEN Undefined ELSE ctx.form[fieldPath]

\* cross-field rules: matchField(fieldPath)(value, context)
matchField(fieldPath, value, ctx) ==
    LET compareValue == getFieldValue(fieldPath, ctx)
        valid        == value = compareValue
    IN  createResult(valid, IF valid THEN "" ELSE "MSG_FIELD_MISMATCH", "FIELD_MISMATCH",
                     [NoMeta EXCEPT !.kind = "field", !.path = fieldPath, !.v = compareValue])

\* cross-field rules: requiredIf(fieldPath)(value, context)
requiredIf(fieldPath, value, ctx) ==
    LET dependValue == getFieldValue(fieldPath, ctx)
        valid       == value # Null /\ value # Undefined /\ value # Str(StrEmpty)
    IN  IF ~Truthy(dependValue)
        THEN createResult(TRUE, "", "", NoMeta)
        ELSE createResult(valid, IF valid THEN "" ELSE "MSG_REQUIRED_IF", "REQUIRED_IF",
                          [NoMeta EXCEPT !.kind = "field", !.path = fieldPath, !.v = dependValue])

\* rules/types.ts: isString(value)
isString(value) ==
    LET valid == value.t = "string" IN
    createResult(valid, IF valid THEN "" ELSE "MSG_NOT_STRING", "NOT_STRING", NoMeta)

\* how a caller-supplied predicate ends: it returns a valid or an invalid
\* result, throws an Error or null, or returns a promise that resolves to a
\* valid or an invalid result or rejects with an Error or with undefined
Outcomes == {"ok", "bad", "throwErr", "throwNull", "pOk", "pBad", "rejectErr", "rejectNull"}

\* rule.validator(value, context): how it ends (return, throw, resolve, reject)
\* and with what
Predicate(rule, value, ctx) ==
    LET ok  == createResult(TRUE, "", "", NoMeta)
        bad == createResult(FALSE, "MSG_CUSTOM", "CUSTOM", NoMeta)
        Ends(mode, res, err) == [mode |-> mode, res |-> res, err |-> err]
    IN  CASE rule.kind = "required"   -> Ends("return", required(value), NoErr)
          [] rule.kind = "matchField" -> Ends("return", matchField(rule.path, value, ctx), NoErr)
          [] rule.kind = "requiredIf" -> Ends("return", requiredIf(rule.path, value, ctx), NoErr)
          [] rule.kind = "isString"   -> Ends("return", isString(value), NoErr)
          [] rule.kind = "ok"         -> Ends("return", ok, NoErr)
          [] rule.kind = "bad"        -> Ends("return", bad, NoErr)
          [] rule.kind = "throwErr"   -> Ends("throw", ok, PredError)
          [] rule.kind = "throwNull"  -> Ends("throw", ok, NullThrown)
          [] rule.kind = "pOk"        -> Ends("resolve", ok, NoErr)
          [] rule.kind = "pBad"       -> Ends("resolve", bad, NoErr)
          [] rule.kind = "rejectErr"  -> Ends("reject", ok, PredError)
          [] OTHER              -> Ends("reject", ok, NullThrown)

\* the error handler of executeRule (the catch block, and the .catch callback):
\* call the hook, then build the RULE_ERROR result from error.message
\* under the hook onError ("none": no hook configured)
HandleErrorWith(onError, error, rule, value) ==
    LET hooked == IF onError # "none"
                  THEN <<[error |-> error, rule |-> rule, value |-> value]>>
                  ELSE <<>>
    IN  IF onError = "throws"
        THEN [threw |-> TRUE, err |-> HookError, hooked |-> hooked, handled |-> TRUE,
              res |-> createResult(FALSE, "", "", NoMeta)]
        ELSE IF error.nullish
        THEN [threw |-> TRUE, err |-> TypeError, hooked |-> hooked, handled |-> TRUE,
              res |-> createResult(FALSE, "", "", NoMeta)]
        ELSE [threw |-> FALSE, err |-> NoErr, hooked |-> hooked, handled |-> TRUE,
              res |-> createResult(FALSE, "MSG_RULE_ERROR", "RULE_ERROR",
                         [NoMeta EXCEPT !.kind = "error", !.error = error.tag,
                                        !.rule = error.rule])]

\* the error handler under the validator's own hook
HandleError(error, rule, value) == HandleErrorWith(opts.onError, error, rule, value)

\* Validator.executeRule(rule, value, context, isAsync), awaited when isAsync,
\* under the hook onError
executeRuleWith(onError, rule, value, ctx, isAsync) ==
    LET p        == Predicate(rule, value, ctx)
        promise  == p.mode \in {"resolve", "reject"}
        asyncErr == [nullish |-> FALSE, tag |-> "AsyncRule",
                     rule |-> IF rule.name # <<>> THEN rule.name ELSE StrUnknown]
        Plain(res) == [threw |-> FALSE, err |-> NoErr, hooked |-> <<>>, handled |-> FALSE,
                       res |-> res]
        Handle(error) == HandleErrorWith(onError, error, rule, value)
    IN  CASE p.mode = "throw"       -> Handle(p.err)
          [] isAsync /\ promise     -> IF p.mode = "resolve" THEN Plain(p.res)
                                       ELSE Handle(p.err)
          [] ~isAsync /\ promise    -> Handle(asyncErr)
          [] OTHER                  -> Plain(p.res)

\* Validator.executeRule under the validator's own hook
executeRule(rule, value, ctx, isAsync) ==
    executeRuleWith(opts.onError, rule, value, ctx, isAsync)

\* a getCachedResult that also looks up rules without a name, under the key
\* of the name 'undefined'
getCachedResultUnnamed(value, rule, c) ==
    IF opts.cache
    THEN LET name == IF rule.name # <<>> THEN rule.name ELSE StrUndef
             r    == CacheGet(c, generateKey(value, name), now)
         IN  [cache |-> r.cache, called |-> TRUE, found |-> r.found,
              lapsed |-> Len(r.cache.entries) < Len(c.entries),
              res |-> IF r.found THEN r.cache.entries[r.hit].value
                      ELSE createResult(TRUE, "", "", NoMeta)]
    ELSE [cache |-> c, called |-> FALSE, found |-> FALSE, lapsed |-> FALSE,
          res |-> createResult(TRUE, "", "", NoMeta)]

\* Validator.getCachedResult(value, rule) on cache c
getCachedResult(value, rule, c) ==
    IF opts.cache /\ rule.name # <<>>
    THEN LET r == CacheGet(c, KeyOf[value, rule.name], now) IN
         [cache |-> r.cache, called |-> TRUE, found |-> r.found,
          lapsed |-> Len(r.cache.entries) < Len(c.entries),
          res |-> IF r.found THEN r.cache.entries[r.hit].value
                  ELSE createResult(TRUE, "", "", NoMeta)]
    ELSE [cache |-> c, called |-> FALSE, found |-> FALSE, lapsed |-> FALSE,
          res |-> createResult(TRUE, "", "", NoMeta)]

\* a setCachedResult that stores nothing
setCachedResultSkip(value, rule, result, c) ==
    [cache |-> c, called |-> FALSE, evicted |-> FALSE]

\* Validator.setCachedResult(value, rule, result) on cache c
setCachedResult(value, rule, result, c) ==
    IF opts.cache /\ rule.name # <<>>
    THEN [cache |-> CacheSet(c, KeyOf[value, rule.name], result, now),
          called |-> TRUE,
          evicted |-> c.enabled /\ Len(c.entries) >= c.maxSize /\ Len(c.entries) > 0]
    ELSE [cache |-> c, called |-> FALSE, evicted |-> FALSE]

\* what a call has done so far: the rules it reached with a non-empty value,
\* those it looked up in the cache, those whose predicate it invoked, those
\* whose result it stored in the cache (indices in the chain, in order), and
\* how many results it made with this.createResult
Fresh(c) ==
    [cache |-> c, created |-> 0, reached |-> <<>>, looked |-> <<>>, invoked |-> <<>>, stored |-> <<>>,
     hooked |-> <<>>, gets |-> 0, sets |-> 0, hits |-> 0,
     raised |-> FALSE, promised |-> FALSE, evicted |-> FALSE, lapsed |-> FALSE]

Ended(kind, res, err, st) == [kind |-> kind, result |-> res, err |-> err, st |-> st]

\* The loop of validate()/validateSync() from rule i on.  RunRules is the head
\* of an iteration (checkRequired, the skip of an empty value, getCachedResult),
\* Looked what follows the cache lookup, Executed what follows executeRule on
\* a miss (setCachedResult), Verdict the test of the rule's result.
RECURSIVE RunRules(_, _, _, _, _)
RECURSIVE Verdict(_, _, _, _, _, _)

\* after executeRule returned or threw x, the predicate having ended as p
Executed(i, value, ctx, isAsync, st, x, p) ==
    LET st2 == [st EXCEPT !.invoked = Append(@, i),
                          !.hooked = @ \o x.hooked,
                          !.created = @ + (IF ~x.threw /\ x.handled THEN 1 ELSE 0),
                          !.raised = @ \/ p.mode \in {"throw", "reject"},
                          !.promised = @ \/ p.mode \in {"resolve", "reject"}]
    IN  IF x.threw THEN Ended("error", x.res, x.err, st2)
        ELSE Verdict(i, value, ctx, isAsync, st2,
                     [res |-> x.res, w |-> setCachedResult(value, rules[i], x.res, st2.cache)])

\* after getCachedResult returned g
Looked(i, value, ctx, isAsync, st, g) ==
    LET st1 == [st EXCEPT !.cache = g.cache,
                          !.reached = Append(@, i),
                          !.looked = IF g.called THEN Append(@, i) ELSE @,
                          !.gets = @ + (IF g.called THEN 1 ELSE 0),
                          !.hits = @ + (IF g.found THEN 1 ELSE 0),
                          !.lapsed = @ \/ g.lapsed]
    IN  IF g.found
        THEN Verdict(i, value, ctx, isAsync, st1,
                     [res |-> g.res, w |-> [cache |-> st1.cache, called |-> FALSE, evicted |-> FALSE]])
        ELSE Executed(i, value, ctx, isAsync, st1,
                      executeRule(rules[i], value, ctx, isAsync),
                      Predicate(rules[i], value, ctx))

\* a loop that, without stopOnFirstError, goes on through the rules after the
\* first invalid verdict and then returns that first error
VerdictContinue(i, value, ctx, isAsync, st, r) ==
    LET s == [st EXCEPT !.cache = r.w.cache,
                        !.stored = IF r.w.called THEN Append(@, i) ELSE @,
                        !.sets = @ + (IF r.w.called THEN 1 ELSE 0),
                        !.evicted = @ \/ r.w.evicted]
        finalResult == mergeRuleMessage(r.res, rules[i], value, ctx)
        rest == RunRules(i + 1, value, ctx, isAsync, s)
    IN  IF r.res.valid THEN rest
        ELSE IF opts.stopOnFirstError THEN Ended("result", finalResult, NoErr, s)
        ELSE IF rest.kind = "result" THEN Ended("result", finalResult, NoErr, rest.st)
        ELSE rest

\* the rule's result r.res, r.w being what setCachedResult did if it ran
Verdict(i, value, ctx, isAsync, st, r) ==
    LET s == [st EXCEPT !.cache = r.w.cache,
                        !.stored = IF r.w.called THEN Append(@, i) ELSE @,
                        !.sets = @ + (IF r.w.called THEN 1 ELSE 0),
                        !.evicted = @ \/ r.w.evicted]
        finalResult == mergeRuleMessage(r.res, rules[i], value, ctx)
    IN  IF ~r.res.valid
        THEN IF opts.stopOnFirstError
             THEN Ended("result", finalResult, NoErr, s)
             ELSE Ended("result", finalResult, NoErr, s)
        ELSE RunRules(i + 1, value, ctx, isAsync, s)

RunRules(i, value, ctx, isAsync, st) ==
    IF i > Len(rules)
    THEN Ended("result", createResult(TRUE, "", "", NoMeta), NoErr,
               [st EXCEPT !.created = @ + 1])
    ELSE IF checkRequired(value, rules[i], ctx).failed
    THEN Ended("result", checkRequired(value, rules[i], ctx).res, NoErr,
               [st EXCEPT !.created = @ + 1])
    ELSE IF isEmpty(value)
    THEN RunRules(i + 1, value, ctx, isAsync, st)
    ELSE Looked(i, value, ctx, isAsync, st, getCachedResult(value, rules[i], st.cache))

\* Validator.validate(value, context), awaited to its end
validate(value, ctx) ==
    IF Len(rules) = 0
    THEN Ended("result", createResult(TRUE, "", "", NoMeta), NoErr,
               [Fresh(cache) EXCEPT !.created = 1])
    ELSE RunRules(1, value, ctx, TRUE, Fresh(cache))

\* Validator.validateSync(value, context)
validateSync(value, ctx) ==
    IF Len(rules) = 0
    THEN Ended("result", createResult(TRUE, "", "", NoMeta), NoErr,
               [Fresh(cache) EXCEPT !.created = 1])
    ELSE RunRules(1, value, ctx, FALSE, Fresh(cache))

\* items.filter(item => !item.result.valid)
Failures(items) == SelectSeq(items, LAMBDA item : ~item.result.valid)

\* what a batch call returns: { valid, results, failures }, or the error it
\* rejects with
BatchResult(items) ==
    [kind |-> "result", valid |-> Failures(items) = <<>>, results |-> items,
     failures |-> Failures(items), err |-> NoErr]
BatchError(err) ==
    [kind |-> "error", valid |-> FALSE, results |-> <<>>, failures |-> <<>>, err |-> err]

\* Validator.validateBatch(values, context) on cache c, awaited to its end: one
\* validate() after the other
RECURSIVE BatchFrom(_, _, _, _, _)
BatchFrom(k, values, ctx, c, items) ==
    IF k > Len(values) THEN [cache |-> c, out |-> BatchResult(items)]
    ELSE LET e == IF Len(rules) = 0
                  THEN Ended("result", createResult(TRUE, "", "", NoMeta), NoErr,
                             [Fresh(c) EXCEPT !.created = 1])
                  ELSE RunRules(1, values[k], ctx, TRUE, Fresh(c))
         IN  IF e.kind = "error" THEN [cache |-> e.st.cache, out |-> BatchError(e.err)]
             ELSE BatchFrom(k + 1, values, ctx, e.st.cache,
                            Append(items, [value |-> values[k], result |-> e.result]))

validateBatch(values, ctx, c) == BatchFrom(1, values, ctx, c, <<>>)

\* one validate() call of validateParallel: it has returned a result, has
\* thrown, or is suspended at `await this.executeRule(...)` of rule `at`, x
\* being what executeRule hands to the await; sync: x is a plain value, so the
\* call resumes in its turn of the microtask queue
Returned(res) == [state |-> "result", at |-> 0, sync |-> TRUE, result |-> res, err |-> NoErr]
Threw(err) == [state |-> "error", at |-> 0, sync |-> TRUE, result |-> createResult(TRUE, "", "", NoMeta), err |-> err]
Awaiting(i, sync, x) ==
    [state |-> "await", at |-> i, sync |-> sync, result |-> x.res,
     err |-> IF x.threw THEN x.err ELSE NoErr]

\* the loop of validate(value, context) from rule i on cache c, up to its next
\* await or its return
RECURSIVE RunTask(_, _, _, _)
RunTask(i, value, ctx, c) ==
    IF i > Len(rules)
    THEN [cache |-> c, task |-> Returned(createResult(TRUE, "", "", NoMeta))]
    ELSE IF checkRequired(value, rules[i], ctx).failed
    THEN [cache |-> c, task |-> Returned(checkRequired(value, rules[i], ctx).res)]
    ELSE IF isEmpty(value)
    THEN RunTask(i + 1, value, ctx, c)
    ELSE LET g == getCachedResult(value, rules[i], c)
             x == executeRule(rules[i], value, ctx, TRUE)
             p == Predicate(rules[i], value, ctx)
         IN  IF g.found
             THEN IF ~g.res.valid
                  THEN [cache |-> g.cache,
                        task |-> Returned(mergeRuleMessage(g.res, rules[i], value, ctx))]
                  ELSE RunTask(i + 1, value, ctx, g.cache)
             ELSE IF p.mode = "throw" /\ x.threw
                  THEN [cache |-> g.cache, task |-> Threw(x.err)]
                  ELSE [cache |-> g.cache,
                        task |-> Awaiting(i, p.mode \in {"return", "throw"}, x)]

\* the call suspended as t resumes: the await yields the rule's result (or
\* throws), the result is stored in the cache, and the loop goes on
ResumeTask(t, value, ctx, c) ==
    IF t.err # NoErr THEN [cache |-> c, task |-> Threw(t.err)]
    ELSE LET w == setCachedResult(value, rules[t.at], t.result, c) IN
         IF ~t.result.valid
         THEN [cache |-> w.cache,
               task |-> Returned(mergeRuleMessage(t.result, rules[t.at], value, ctx))]
         ELSE RunTask(t.at + 1, value, ctx, w.cache)

\* values.map(async value => ...validate(value, context)): every call runs up
\* to its first await, in the order of the values
RECURSIVE StartFrom(_, _, _, _, _)
StartFrom(k, values, ctx, c, tasks) ==
    IF k > Len(values) THEN [cache |-> c, tasks |-> tasks]
    ELSE LET r == RunTask(1, values[k], ctx, c) IN
         StartFrom(k + 1, values, ctx, r.cache, Append(tasks, r.task))

\* the suspended calls among tasks that wait in the microtask queue, in order
RECURSIVE SyncWaiters(_, _)
SyncWaiters(tasks, k) ==
    IF k > Len(tasks) THEN <<>>
    ELSE (IF tasks[k].state = "await" /\ tasks[k].sync THEN <<k>> ELSE <<>>)
            \o SyncWaiters(tasks, k + 1)

\* no batch call made yet
NoPar ==
    [phase |-> "idle", values |-> <<>>, ctx |-> NoContext, tasks |-> <<>>, micro |-> <<>>,
     sequential |-> BatchResult(<<>>), out |-> BatchResult(<<>>)]

-----------------------------------------------------------------------------
(* core/Pool.ts: result objects are mutable and have identity; an object is  *)
(* its index in heap, and heap[o] holds its fields. given and written are    *)
(* the objects acquire() has handed out and those a caller has written into; *)
(* lent are those handed out and not passed to release() since.              *)
(* reused counts the acquire() calls, among those acquiredCount counts, that  *)
(* returned an object of the free list.                                      *)

\* ResultPool.createResult(): { valid: false, message: undefined, ... }
PoolBlank == createResult(FALSE, "", "", NoMeta)

\* a resetResult that leaves the object as it is
resetResultKeep(result) == result

\* ResultPool.resetResult(result): the fields after the reset
resetResult(result) ==
    [result EXCEPT !.valid = FALSE, !.message = "", !.code = "", !.meta = NoMeta]

\* no acquire() observed yet
NoGot == [o |-> 0, reused |-> FALSE, fields |-> PoolBlank]

\* new ResultPool({ initialSize, maxSize, enabled })
RECURSIVE Blanks(_)
Blanks(n) == IF n = 0 THEN <<>> ELSE Append(Blanks(n - 1), PoolBlank)

NewPool(initialSize, maxSize, enabled) ==
    [free |-> [k \in 1..initialSize |-> k], maxSize |-> maxSize, enabled |-> enabled,
     acquiredCount |-> 0, releasedCount |-> 0, createdCount |-> initialSize,
     reused |-> 0,
     heap |-> Blanks(initialSize), given |-> {}, lent |-> {}, written |-> {}, ops |-> 0, got |-> NoGot]

\* no pool configured
NoPool == NewPool(0, 0, FALSE)

\* ResultPool.acquire() on pool q: the pool afterwards; got is the object
\* returned, with its fields at the return
PoolAcquire(q) ==
    LET fresh == Len(q.heap) + 1 IN
    IF ~q.enabled
    THEN [q EXCEPT !.createdCount = @ + 1, !.heap = Append(@, PoolBlank),
                   !.given = @ \cup {fresh}, !.lent = @ \cup {fresh},
                   !.got = [o |-> fresh, reused |-> FALSE, fields |-> PoolBlank]]
    ELSE IF Len(q.free) > 0
    THEN LET o == q.free[Len(q.free)] IN
         [q EXCEPT !.acquiredCount = @ + 1, !.reused = @ + 1,
                   !.free = SubSeq(@, 1, Len(@) - 1),
                   !.heap[o] = resetResult(@),
                   !.given = @ \cup {o}, !.lent = @ \cup {o},
                   !.got = [o |-> o, reused |-> TRUE, fields |-> resetResult(q.heap[o])]]
    ELSE [q EXCEPT !.acquiredCount = @ + 1, !.createdCount = @ + 1,
                   !.heap = Append(@, PoolBlank),
                   !.given = @ \cup {fresh}, !.lent = @ \cup {fresh},
                   !.got = [o |-> fresh, reused |-> FALSE, fields |-> PoolBlank]]

\* ResultPool.release(result) of object o on pool q
PoolRelease(q, o) ==
    IF ~q.enabled THEN [q EXCEPT !.lent = @ \ {o}]
    ELSE IF Len(q.free) < q.maxSize
    THEN [q EXCEPT !.releasedCount = @ + 1,
                   !.heap[o] = resetResult(@),
                   !.free = Append(@, o),
                   !.lent = @ \ {o}]
    ELSE [q EXCEPT !.releasedCount = @ + 1, !.lent = @ \ {o}]

\* Validator.createResult(valid, options) with a pool, n times: acquire an
\* object and assign it the fields of the result
RECURSIVE Lend(_, _, _)
Lend(q, n, result) ==
    IF n = 0 THEN q
    ELSE LET a == PoolAcquire(q) IN
         Lend([a EXCEPT !.heap[a.got.o] = result], n - 1, result)

\* ResultPool.size
PoolSize(q) == Len(q.free)

\* ResultPool.clear()
PoolClear(q) ==
    [q EXCEPT !.free = <<>>, !.acquiredCount = 0, !.releasedCount = 0, !.reused = 0]

\* ResultPool.resetStats()
PoolResetStats(q) ==
    [q EXCEPT !.acquiredCount = 0, !.releasedCount = 0, !.createdCount = 0, !.reused = 0]

\* ResultPool.enable() and ResultPool.disable()
PoolEnable(q) == [q EXCEPT !.enabled = TRUE]
PoolDisable(q) == [q EXCEPT !.enabled = FALSE]

\* (x * 100).toFixed(2) for x = num / den, in hundredths of a percent: the
\* sign, then the magnitude rounded to the nearest hundredth (den is small
\* enough here for no magnitude to lie halfway between two hundredths)
Percent(num, den) ==
    LET mag == IF num < 0 THEN 0 - num ELSE num
        hun == (2 * mag * 10000 + den) \div (2 * den)
    IN  IF num < 0 THEN 0 - hun ELSE hun

\* ResultPool.getStats().reuseRate, in hundredths of a percent
PoolReuseRate(q) ==
    IF q.acquiredCount > 0
    THEN Percent(q.acquiredCount - q.createdCount, q.acquiredCount)
    ELSE 0

-----------------------------------------------------------------------------
(* schema/SchemaValidator.ts *)

\* a property of a SchemaRule that is not set
Absent == 0 - 1

\* a message: its text ("" = undefined) and, for the message of a failed array
\* element, the element's index and the element's own message
Msg(text) == [text |-> text, index |-> Absent, inner |-> ""]
ItemMsg(i, message) == [text |-> "MSG_ARRAY_ITEM", index |-> i, inner |-> message.text]

\* a SchemaRule with no property set. items holds the element rule, if any.
\* validator is "none" or how the custom validator ends (see Outcomes);
\* transform is "none", "fn" (a function that returns 'y'), "fnThrow" (a
\* function that throws) or "toUpperCase" (the list ['toUpperCase']). minLength is a property that callers write and that
\* SchemaRule does not declare. pattern is "none" or "x" (the RegExp /x/);
\* enum holds the list of allowed values, if any; path is the field that a
\* validator made by matchField or requiredIf reads.
NoSchemaRule ==
    [type |-> "none", required |-> FALSE, min |-> Absent, max |-> Absent,
     minLength |-> Absent, pattern |-> "none", enum |-> <<>>,
     items |-> <<>>, validator |-> "none", path |-> "a", transform |-> "none",
     default |-> Undefined, message |-> ""]

\* the names a record's fields carry; "0" is an integer-like key
FieldNames == {"a", "b", "0"}
AllFields == FieldNames \cup {"tags"}
IsIndexKey(f) == f = "0"

\* Object.entries(this.schema) for a schema written as decl: integer-like keys
\* come first, the other keys follow in the order they were written
ObjectEntries(decl) ==
    SelectSeq(decl, LAMBDA e : IsIndexKey(e.field))
        \o SelectSeq(decl, LAMBDA e : ~IsIndexKey(e.field))

\* rules.minLength(min)(value), for a string or an array
minLength(min, value) ==
    IF ~Truthy(value) THEN createResult(TRUE, "", "", NoMeta)
    ELSE createResult(Len(value.s) >= min,
                      IF Len(value.s) >= min THEN "" ELSE "MSG_MIN_LENGTH",
                      "MIN_LENGTH", NoMeta)

\* rules.maxLength(max)(value), for a string or an array
maxLength(max, value) ==
    IF ~Truthy(value) THEN createResult(TRUE, "", "", NoMeta)
    ELSE createResult(Len(value.s) <= max,
                      IF Len(value.s) <= max THEN "" ELSE "MSG_MAX_LENGTH",
                      "MAX_LENGTH", NoMeta)

\* rules.min(minValue)(value) and rules.max(maxValue)(value), for a number
min(minValue, value) ==
    createResult(value.s[1] >= minValue,
                 IF value.s[1] >= minValue THEN "" ELSE "MSG_MIN", "MIN", NoMeta)
max(maxValue, value) ==
    createResult(value.s[1] <= maxValue,
                 IF value.s[1] <= maxValue THEN "" ELSE "MSG_MAX", "MAX", NoMeta)

\* String(value) holds the letter 'x', for strings, numbers and arrays of them
RECURSIVE HasX(_)
HasX(value) ==
    CASE value.t = "string" -> \E k \in 1..Len(value.s) : value.s[k] = 120
      [] value.t = "array"  -> \E k \in 1..Len(value.s) : HasX(value.s[k])
      [] OTHER              -> FALSE

\* rules.pattern(/x/, message)(value)
pattern(message, value) ==
    IF ~Truthy(value) THEN createResult(TRUE, "", "", NoMeta)
    ELSE createResult(HasX(value),
                      IF HasX(value) THEN ""
                      ELSE IF message # "" THEN message ELSE "MSG_PATTERN",
                      "PATTERN", NoMeta)

\* rules.oneOf(values, message)(value): values.includes(value) finds a string or
\* a number that equals value, and no array (an array is equal to itself only)
oneOf(values, message, value) ==
    LET valid == \E k \in 1..Len(values) :
                     /\ values[k].t = value.t
                     /\ value.t # "array"
                     /\ values[k] = value
    IN  createResult(valid,
                     IF valid THEN "" ELSE IF message # "" THEN message ELSE "MSG_ONE_OF",
                     "ONE_OF", NoMeta)

\* rules.numeric(value), for numbers, arrays and strings of letters:
\* Number(value) is NaN for such a string and for an array that holds one
\* (Number([]) is 0, an array of two or more elements gives NaN)
RECURSIVE numeric(_)
numeric(value) ==
    LET valid == CASE value.t = "number" -> TRUE
                   [] value.t = "string" -> value.s = <<>>
                   [] value.t = "array"  ->
                        \/ value.s = <<>>
                        \/ Len(value.s) = 1 /\ (value.s[1].t \in {"null", "undefined"}
                                                  \/ numeric(value.s[1]).valid)
                   [] OTHER -> TRUE
    IN  IF value.t \in {"null", "undefined"} \/ (value.t = "string" /\ value.s = <<>>)
        THEN createResult(TRUE, "", "", NoMeta)
        ELSE createResult(valid, IF valid THEN "" ELSE "MSG_NOT_NUMERIC", "NOT_NUMERIC", NoMeta)

\* SchemaValidator.validateType(value, type), for the types 'string', 'array'
\* and 'number'
validateType(value, type) ==
    LET actualType == CASE value.t = "array" -> "array"
                        [] value.t = "null"  -> "object"
                        [] OTHER             -> value.t
        valid      == actualType = type
    IN  IF type = "number" THEN numeric(value)
        ELSE createResult(valid, IF valid THEN "" ELSE "MSG_TYPE_MISMATCH",
                          "TYPE_MISMATCH", NoMeta)

\* Transformer.toUpperCase, for strings of ASCII letters and other values
toUpperCase(value) ==
    IF value.t = "string"
    THEN Str([k \in 1..Len(value.s) |->
                 IF value.s[k] \in 97..122 THEN value.s[k] - 32 ELSE value.s[k]])
    ELSE value

\* SchemaValidator.applyTransform(value, transform), for a custom function and
\* for the list ['toUpperCase']
applyTransform(value, transform) ==
    CASE transform = "fn"          -> [threw |-> FALSE, err |-> NoErr, value |-> Str(StrY)]
      [] transform = "fnThrow"     -> [threw |-> TRUE, err |-> PredError, value |-> value]
      [] transform = "toUpperCase" -> [threw |-> FALSE, err |-> NoErr, value |-> toUpperCase(value)]
      [] OTHER                     -> [threw |-> FALSE, err |-> NoErr, value |-> value]

\* what validateField resolves with, or the error it rejects with; ran lists
\* the checks it evaluated, in order
FieldResult(valid, message, code) ==
    [kind |-> "result", valid |-> valid, message |-> message, code |-> code,
     err |-> NoErr, ran |-> <<>>]
FieldThrew(err) ==
    [kind |-> "error", valid |-> FALSE, message |-> Msg(""), code |-> "",
     err |-> err, ran |-> <<>>]

\* rule.message || message
OrMessage(rule, message) == IF rule.message # "" THEN Msg(rule.message) ELSE message

\* a failed check's { valid: false, message: rule.message || result.message, code }
FieldFailed(rule, result, code) ==
    IF result.valid THEN FieldResult(TRUE, Msg(""), "")
    ELSE FieldResult(FALSE, OrMessage(rule, Msg(result.message)), code)

\* an order of the checks that runs the custom validator first
ValidatorFirst ==
    <<"validator", "required", "empty", "type", "min", "max", "pattern", "enum", "items">>

\* the checks of validateField in the order of its statements; "empty" is the
\* early return for null, undefined and ''
Checks ==
    <<"required", "empty", "type", "min", "max", "pattern", "enum", "items", "validator">>

\* the condition under which validateField evaluates a check
Declared(check, value, rule) ==
    CASE check = "required"  -> rule.required
      [] check = "empty"     -> TRUE
      [] check = "type"      -> rule.type # "none"
      [] check = "min"       -> rule.min # Absent /\ value.t \in {"string", "array", "number"}
      [] check = "max"       -> rule.max # Absent /\ value.t \in {"string", "array", "number"}
      [] check = "pattern"   -> rule.pattern # "none"
      [] check = "enum"      -> rule.enum # <<>>
      [] check = "items"     -> rule.items # <<>> /\ value.t = "array"
      [] check = "validator" -> rule.validator # "none"

RECURSIVE validateField(_, _, _)
RECURSIVE ItemsFrom(_, _, _, _)

\* validateField: the loop over the elements of an array, from index i
ItemsFrom(i, value, rule, ctx) ==
    IF i >= Len(value.s) THEN FieldResult(TRUE, Msg(""), "")
    ELSE LET itemResult == validateField(value.s[i + 1], rule.items[1], ctx) IN
         IF itemResult.kind = "error" THEN FieldThrew(itemResult.err)
         ELSE IF ~itemResult.valid
         THEN FieldResult(FALSE, OrMessage(rule, ItemMsg(i, itemResult.message)),
                          IF itemResult.code # "" THEN itemResult.code
                          ELSE "ARRAY_ITEM_INVALID")
         ELSE ItemsFrom(i + 1, value, rule, ctx)

\* validateField: one check. It yields a result, the error the custom
\* validator raised, or (kind "skip") the early return for an empty value.
Check(check, value, rule, ctx) ==
    CASE check = "required" -> FieldFailed(rule, required(value), "REQUIRED")
      [] check = "empty" ->
            IF value.t \in {"null", "undefined"} \/ (value.t = "string" /\ value.s = <<>>)
            THEN [FieldResult(TRUE, Msg(""), "") EXCEPT !.kind = "skip"]
            ELSE FieldResult(TRUE, Msg(""), "")
      [] check = "type" ->
            FieldFailed(rule, validateType(value, rule.type), validateType(value, rule.type).code)
      [] check = "min" ->
            IF value.t = "number" THEN FieldFailed(rule, min(rule.min, value), "MIN")
            ELSE FieldFailed(rule, minLength(rule.min, value), "MIN_LENGTH")
      [] check = "max" ->
            IF value.t = "number" THEN FieldFailed(rule, max(rule.max, value), "MAX")
            ELSE FieldFailed(rule, maxLength(rule.max, value), "MAX_LENGTH")
      [] check = "pattern" -> FieldFailed(rule, pattern(rule.message, value), "PATTERN")
      [] check = "enum" -> FieldFailed(rule, oneOf(rule.enum[1], rule.message, value), "ENUM")
      [] check = "items" -> ItemsFrom(0, value, rule, ctx)
      [] check = "validator" ->
            LET p == Predicate([Rule(<<>>, FALSE, rule.validator) EXCEPT !.path = rule.path],
                               value, ctx)
            IN  IF p.mode \in {"throw", "reject"} THEN FieldThrew(p.err)
                ELSE FieldFailed(rule, p.res, p.res.code)

\* validateField: the checks from the k-th on, ran being those evaluated so far
RECURSIVE ChecksFrom(_, _, _, _, _)
ChecksFrom(k, value, rule, ctx, ran) ==
    IF k > Len(Checks) THEN [FieldResult(TRUE, Msg(""), "") EXCEPT !.ran = ran]
    ELSE IF ~Declared(Checks[k], value, rule) THEN ChecksFrom(k + 1, value, rule, ctx, ran)
    ELSE LET result == Check(Checks[k], value, rule, ctx)
             ran1   == Append(ran, Checks[k])
         IN  IF result.kind = "skip"
             THEN [FieldResult(TRUE, Msg(""), "") EXCEPT !.ran = ran1]
             ELSE IF result.kind = "error" \/ ~result.valid
             THEN [result EXCEPT !.ran = ran1]
             ELSE ChecksFrom(k + 1, value, rule, ctx, ran1)

\* SchemaValidator.validateField(field, value, rule, context)
validateField(value, rule, ctx) == ChecksFrom(1, value, rule, ctx, <<>>)

\* what a validate() call has gathered: errors, errorMap (<<>> for a field
\* without a bucket), transformedData, touched, the log of the fields it
\* defaulted, transformed and validated, in order, and seen, the log of its
\* validateField calls
NoErrors == [f \in AllFields |-> <<>>]
\* `const transformedData = data`: no copy, the caller's record itself
GatheredSame(data) ==
    [errors |-> <<>>, errorMap |-> NoErrors, transformedData |-> data, touched |-> <<>>,
     seen |-> <<>>, data |-> data, same |-> TRUE]

\* `const transformedData = { ...data }`: a record of its own with the fields
\* of data. data is the caller's record as the call goes on; same tells
\* whether transformedData is that very object
Gathered(data) ==
    [errors |-> <<>>, errorMap |-> NoErrors, transformedData |-> data, touched |-> <<>>,
     seen |-> <<>>, data |-> data, same |-> FALSE]

\* transformedData[field] = value
Assigned(acc, field, value) ==
    [acc EXCEPT !.transformedData[field] = value,
                !.data[field] = IF acc.same THEN value ELSE @]

\* one validateField call: the field and the index of its rule, the value and
\* the formData it was given, and how it ended
Seen(field, j, value, formData, result) ==
    [field |-> field, j |-> j, value |-> value, formData |-> formData,
     kind |-> result.kind, valid |-> result.valid, code |-> result.code, ran |-> result.ran]

\* a result that reports valid: true whatever was gathered
SchemaResolvedValid(valid, acc) ==
    [called |-> TRUE, kind |-> "result", valid |-> TRUE, errors |-> acc.errors,
     errorMap |-> acc.errorMap, err |-> NoErr, raisedAt |-> "", touched |-> acc.touched,
     seen |-> acc.seen, data |-> acc.data]

\* how a validate() call ends: it resolves with { valid, errors, errorMap } or
\* rejects with err, raised while it worked on the field raisedAt
SchemaResolved(valid, acc) ==
    [called |-> TRUE, kind |-> "result", valid |-> valid, errors |-> acc.errors,
     errorMap |-> acc.errorMap, err |-> NoErr, raisedAt |-> "", touched |-> acc.touched,
     seen |-> acc.seen, data |-> acc.data]
SchemaRejected(err, field, acc) ==
    [called |-> TRUE, kind |-> "error", valid |-> FALSE, errors |-> <<>>,
     errorMap |-> NoErrors, err |-> err, raisedAt |-> field, touched |-> acc.touched,
     seen |-> acc.seen, data |-> acc.data]

\* an option test that never stops
StopNever == FALSE

\* this.options.stopOnFirstError
StopOnFirstError == sch.stopOnFirstError

\* a default test that never substitutes
DefaultedNever(value, rule) == FALSE

\* value === undefined && rule.default !== undefined
Defaulted(value, rule) == value = Undefined /\ rule.default # Undefined

\* a transform test that overlooks the autoTransform option
TransformsAlways(rule) == rule.transform # "none"

\* this.options.autoTransform && rule.transform
Transforms(rule) == sch.autoTransform /\ rule.transform # "none"

RECURSIVE FieldsFrom(_, _, _, _)
RECURSIVE FieldRulesFrom(_, _, _, _, _, _)

\* SchemaValidator.validate: the loop over the rules of entry k, from rule j,
\* value being the field's value so far
FieldRulesFrom(j, k, entries, data, value, acc) ==
    IF j > Len(entries[k].rules) THEN FieldsFrom(k + 1, entries, data, acc)
    ELSE LET field      == entries[k].field
             rule       == entries[k].rules[j]
             defaulted  == Defaulted(value, rule)
             v1         == IF defaulted THEN rule.default ELSE value
             transforms == Transforms(rule)
             t          == IF transforms THEN applyTransform(v1, rule.transform)
                           ELSE [threw |-> FALSE, err |-> NoErr, value |-> v1]
             acc0       == [acc EXCEPT
                              !.touched = @ \o (IF defaulted THEN <<[field |-> field, step |-> "default"]>> ELSE <<>>)
                                            \o (IF transforms THEN <<[field |-> field, step |-> "transform"]>> ELSE <<>>)]
             acc1       == IF defaulted \/ (transforms /\ ~t.threw)
                           THEN Assigned(acc0, field, IF t.threw THEN v1 ELSE t.value)
                           ELSE acc0
             formData   == [hasForm |-> TRUE, form |-> acc1.transformedData]
             result     == validateField(t.value, rule, formData)
             acc2       == [acc1 EXCEPT
                              !.touched = Append(@, [field |-> field, step |-> "validate"]),
                              !.seen = Append(@, Seen(field, j, t.value, acc1.transformedData, result))]
             error      == [field |-> field,
                            message |-> IF result.message.text # "" THEN result.message
                                        ELSE Msg("MSG_INVALID"),
                            code |-> result.code, rule |-> rule.type]
             acc3       == [acc2 EXCEPT !.errors = Append(@, error),
                                        !.errorMap[field] = Append(@, error)]
         IN  IF t.threw THEN SchemaRejected(t.err, field, acc1)
             ELSE IF result.kind = "error" THEN SchemaRejected(result.err, field, acc2)
             ELSE IF ~result.valid
             THEN IF StopOnFirstError THEN SchemaResolved(FALSE, acc3)
                  ELSE FieldsFrom(k + 1, entries, data, acc3)
             ELSE FieldRulesFrom(j + 1, k, entries, data, t.value, acc2)

\* SchemaValidator.validate: the loop over Object.entries(schema), from entry k
FieldsFrom(k, entries, data, acc) ==
    IF k > Len(entries) THEN SchemaResolved(acc.errors = <<>>, acc)
    ELSE FieldRulesFrom(1, k, entries, data, acc.data[entries[k].field], acc)

\* SchemaValidator.validate(data), awaited to its end
schemaValidate(data) == FieldsFrom(1, ObjectEntries(sch.decl), data, Gathered(data))

\* no validate() observed yet
NoSchemaOut ==
    [called |-> FALSE, kind |-> "result", valid |-> TRUE, errors |-> <<>>,
     errorMap |-> NoErrors, err |-> NoErr, raisedAt |-> "", touched |-> <<>>,
     seen |-> <<>>, data |-> [f \in AllFields |-> Undefined]]

\* new SchemaValidator(schema, { stopOnFirstError, autoTransform })
NewSchemaValidator(decl, stopOnFirstError, autoTransform) ==
    [decl |-> decl, stopOnFirstError |-> stopOnFirstError, autoTransform |-> autoTransform,
     data |-> [f \in AllFields |-> Undefined], out |-> NoSchemaOut]

\* no SchemaValidator in use
NoSch == NewSchemaValidator(<<>>, FALSE, FALSE)

-----------------------------------------------------------------------------
(* Observations *)

\* the value stored by the direct set() calls: { valid: true }
ResultValid == createResult(TRUE, "", "", NoMeta)

\* no direct cache call made yet
NoSets ==
    [keys |-> <<>>, swept |-> {}, frozen |-> <<>>, phase |-> "fresh",
     destroyed |-> FALSE, beat |-> FALSE]

NoOp ==
    [op |-> "none", key |-> <<>>, n |-> 0, on |-> FALSE, rel |-> "absent", late |-> FALSE,
     found |-> FALSE, stored |-> FALSE, dsize |-> 0, dhits |-> 0, dmisses |-> 0]

\* What a direct cache call saw and did (c0 the cache before, c1 after):
\*   rel     where the entry's expireAt stood against the clock ("absent": no entry)
\*   late    an entry was stored and more than ttl has elapsed since its set()
\*   found   what the call returned; stored: the key is in the Map afterwards
\*   dsize, dhits, dmisses   the change of size, hits and misses
Observe(op, key, c0, c1, found, reads) ==
    LET i == IndexOf(c0.entries, key) IN
    [op |-> op, key |-> key, n |-> reads, on |-> c0.enabled,
     rel |-> IF i = 0 THEN "absent"
             ELSE IF c0.entries[i].expireAt = NoExpire THEN "never"
             ELSE IF c0.entries[i].expireAt > now THEN "future"
             ELSE IF c0.entries[i].expireAt = now THEN "now"
             ELSE "past",
     late |-> i # 0 /\ c0.ttl > 0 /\ now - c0.entries[i].at > c0.ttl,
     found |-> found, stored |-> key \in Keys(c1.entries),
     dsize |-> Len(c1.entries) - Len(c0.entries),
     dhits |-> c1.hits - c0.hits,
     dmisses |-> c1.misses - c0.misses]

-----------------------------------------------------------------------------
(* Direct use of a RuleCache *)

\* the ttl a cache is configured with (0: none)
Ttls == {0, 1}

\* the keys handed to set()/get()/has(): 'a', 'b', 'c'
CacheKeys == {StrA, StrB, <<99>>}

\* Date.now() advances
Tick ==
    /\ now < MaxClock
    /\ now' = now + 1
    /\ UNCHANGED <<rules, opts, cache, last, cop, setLog, par, pool, sch, gen, thr>>

\* cache.set(key, { valid: true })
Set(key) ==
    /\ Len(setLog.keys) < MaxSets
    /\ cache' = CacheSet(cache, key, ResultValid, now)
    /\ setLog' = IF cache.enabled
                 THEN [setLog EXCEPT !.keys = Append(@, key), !.phase = "fresh"]
                 ELSE setLog
    /\ cop' = Observe("set", key, cache, cache', FALSE, cop.n)
    /\ UNCHANGED <<rules, opts, now, last, par, pool, sch, gen, thr>>

\* cache.get(key), as one of at most `most` reads
GetUpTo(key, most) ==
    /\ cop.n < most
    /\ LET r == CacheGet(cache, key, now) IN
        /\ cache' = r.cache
        /\ cop' = Observe("get", key, cache, r.cache, r.found, cop.n + 1)
        /\ setLog' = [setLog EXCEPT !.swept = @ \cup (Keys(cache.entries) \ Keys(r.cache.entries))]
    /\ UNCHANGED <<rules, opts, now, last, par, pool, sch, gen, thr>>

\* cache.get(key)
Get(key) == GetUpTo(key, MaxReads)

\* cache.has(key), as one of at most `most` reads
HasUpTo(key, most) ==
    /\ cop.n < most
    /\ LET r == CacheHas(cache, key, now) IN
        /\ cache' = r.cache
        /\ cop' = Observe("has", key, cache, r.cache, r.found, cop.n + 1)
        /\ setLog' = [setLog EXCEPT !.swept = @ \cup (Keys(cache.entries) \ Keys(r.cache.entries))]
    /\ UNCHANGED <<rules, opts, now, last, par, pool, sch, gen, thr>>

\* cache.has(key)
Has(key) == HasUpTo(key, MaxReads)

\* cache.delete(key)
Delete(key) ==
    /\ cache' = CacheDelete(cache, key)
    /\ setLog' = [setLog EXCEPT !.phase = "fresh"]
    /\ UNCHANGED <<rules, opts, now, last, cop, par, pool, sch, gen, thr>>

\* cache.clear()
Clear ==
    /\ cache' = CacheClear(cache)
    /\ setLog' = [setLog EXCEPT !.phase = "fresh"]
    /\ UNCHANGED <<rules, opts, now, last, cop, par, pool, sch, gen, thr>>

\* cache.resetStats()
ResetStats ==
    /\ cache' = resetStats(cache)
    /\ UNCHANGED <<rules, opts, now, last, cop, setLog, par, pool, sch, gen, thr>>

\* cache.enable()
Enable ==
    /\ cache' = enable(cache)
    /\ setLog' = [setLog EXCEPT !.phase = IF @ = "disabled" THEN "reenabled" ELSE @]
    /\ UNCHANGED <<rules, opts, now, last, cop, par, pool, sch, gen, thr>>

\* cache.disable()
Disable ==
    /\ cache' = disable(cache)
    /\ setLog' = [setLog EXCEPT !.phase = "disabled", !.frozen = cache.entries]
    /\ UNCHANGED <<rules, opts, now, last, cop, par, pool, sch, gen, thr>>

\* cache.destroy()
Destroy ==
    /\ cache' = destroy(cache)
    /\ setLog' = [setLog EXCEPT !.phase = "fresh", !.destroyed = TRUE]
    /\ UNCHANGED <<rules, opts, now, last, cop, par, pool, sch, gen, thr>>

\* the callback of the autoCleanup timer: this.cleanExpired()
Sweep ==
    /\ cache.timer
    /\ cache' = CleanExpired(cache, now)
    /\ setLog' = [setLog EXCEPT !.beat = ~@,
                                !.swept = @ \cup (Keys(cache.entries) \ Keys(cache'.entries))]
    /\ UNCHANGED <<rules, opts, now, last, cop, par, pool, sch, gen, thr>>

\* cache.cleanExpired(), called directly or by the autoCleanup timer
Clean ==
    /\ cache' = CleanExpired(cache, now)
    /\ setLog' = [setLog EXCEPT !.swept = @ \cup (Keys(cache.entries) \ Keys(cache'.entries))]
    /\ UNCHANGED <<rules, opts, now, last, cop, par, pool, sch, gen, thr>>

\* cache.generateKey(value, ruleName, params)
GenerateKey(value, ruleName, params) ==
    /\ gen' = [prev |-> gen.latest,
               latest |-> [made |-> TRUE, value |-> value, name |-> ruleName,
                           params |-> params,
                           key |-> generateKeyWith(value, ruleName, params)]]
    /\ UNCHANGED <<rules, opts, cache, now, last, cop, setLog, par, pool, sch, thr>>

-----------------------------------------------------------------------------
(* throttle(validator, limit, options) of the debounce/throttle utilities.   *)
(* A timer is [id, due, kind]: kind "trailing" is the timer set after a      *)
(* leading run, "deferred" the one set by a call that had to wait.  A        *)
(* validate() in flight is the continuation that awaits it: "leading",       *)
(* "trailing" or "deferred".                                                 *)

NoId == 0

\* lastArgs: null, or { value, context }
NoArgs == [has |-> FALSE, value |-> Undefined]
Args(value) == [has |-> TRUE, value |-> value]

\* the closure as throttle() returns it; leading and trailing default to true
NewThrottle(leading, trailing) ==
    [leading |-> leading, trailing |-> trailing,
     lastCallTime |-> 0, timeoutId |-> NoId, lastArgs |-> NoArgs, lastResult |-> FALSE,
     pending |-> 0, timers |-> {}, ids |-> 0, running |-> <<>>, starts |-> <<>>, calls |-> 0]

NoThrottle == NewThrottle(TRUE, TRUE)

\* clearTimeout(id)
ClearTimeout(timers, id) == {tm \in timers : tm.id # id}

\* validator.validate.call(validator, value, context) is started at time t by
\* the continuation `kind`
Started(w, kind, t) ==
    [w EXCEPT !.running = Append(@, kind), !.starts = Append(@, t)]

\* wrappedValidator.validate(value) at time t, up to its first await
ThrottleCall(w, value, t) ==
    LET timeSinceLastCall == t - w.lastCallTime
        w1 == [w EXCEPT !.lastArgs = Args(value), !.calls = @ + 1]
    IN  IF timeSinceLastCall < Limit /\ w.lastResult
        THEN [w1 EXCEPT !.pending = @ + 1]
        ELSE IF timeSinceLastCall >= Limit /\ w.leading
        THEN Started([w1 EXCEPT !.lastCallTime = t], "leading", t)
        ELSE IF w.timeoutId = NoId /\ w.trailing
        THEN [w1 EXCEPT !.pending = @ + 1,
                        !.ids = @ + 1,
                        !.timeoutId = w.ids + 1,
                        !.timers = @ \cup {[id |-> w.ids + 1,
                                            due |-> t + (Limit - timeSinceLastCall),
                                            kind |-> "deferred"]}]
        ELSE [w1 EXCEPT !.pending = @ + 1]

\* the continuation after `await validator.validate(...)` of the k-th call in
\* flight, at time t
ThrottleResume(w, k, t) ==
    LET kind == w.running[k]
        w1 == [w EXCEPT !.running = [j \in 1..(Len(@) - 1) |-> IF j < k THEN @[j] ELSE @[j + 1]],
                        !.lastResult = TRUE,
                        !.pending = 0]
    IN  IF kind = "leading"
        THEN IF w.trailing
             THEN [w1 EXCEPT !.ids = @ + 1,
                             !.timeoutId = w.ids + 1,
                             !.timers = ClearTimeout(@, w.timeoutId)
                                            \cup {[id |-> w.ids + 1, due |-> t + Limit,
                                                   kind |-> "trailing"]}]
             ELSE w1
        ELSE [w1 EXCEPT !.timeoutId = NoId]

\* the callback of timer tm, run at time t, up to its first await
ThrottleTimer(w, tm, t) ==
    LET w1 == [w EXCEPT !.timers = @ \ {tm}] IN
    IF ~w.lastArgs.has THEN [w1 EXCEPT !.timeoutId = NoId]
    ELSE IF tm.kind = "deferred"
    THEN Started([w1 EXCEPT !.lastCallTime = t], "deferred", t)
    ELSE Started(w1, "trailing", t)

-----------------------------------------------------------------------------
(* Use of a Validator *)

\* new Validator(options): this.cache and this.pool exist only when the cache /
\* pool flag is truthy (an absent flag is FALSE), and are then the instance
\* handed in, or an instance of the validator's own when none was handed in
NewValidator(options) ==
    [cache |-> options.cache, pool |-> options.pool,
     stopOnFirstError |-> options.stopOnFirstError, onError |-> options.onError,
     own |-> [cache |-> options.cache /\ ~options.cacheInstance,
              pool |-> options.pool /\ ~options.poolInstance]]

NoCall ==
    [n |-> 0, kind |-> "none", api |-> "", value |-> Undefined, ctx |-> NoContext,
     result |-> createResult(TRUE, "", "", NoMeta), err |-> NoErr,
     created |-> 0,
     reached |-> <<>>, looked |-> <<>>, invoked |-> <<>>, stored |-> <<>>,
     hooked |-> <<>>, gets |-> 0, sets |-> 0, hits |-> 0,
     raised |-> FALSE, promised |-> FALSE, evicted |-> FALSE, lapsed |-> FALSE,
     nrules |-> 0]

\* the observation of the n-th call, which ended as `e`
Called(api, value, ctx, e) ==
    [n |-> last.n + 1, kind |-> e.kind, api |-> api, value |-> value, ctx |-> ctx,
     result |-> e.result, err |-> e.err,
     created |-> e.st.created,
     reached |-> e.st.reached, looked |-> e.st.looked,
     invoked |-> e.st.invoked, stored |-> e.st.stored, hooked |-> e.st.hooked,
     gets |-> e.st.gets, sets |-> e.st.sets, hits |-> e.st.hits,
     raised |-> e.st.raised, promised |-> e.st.promised, evicted |-> e.st.evicted,
     lapsed |-> e.st.lapsed,
     nrules |-> Len(rules)]

\* await validator.validate(value, context)
Validate(value, ctx) ==
    /\ last.n < MaxCalls
    /\ \E e \in {validate(value, ctx)} :
        /\ cache' = e.st.cache
        /\ last' = Called("validate", value, ctx, e)
        /\ pool' = IF opts.pool THEN Lend(pool, e.st.created, e.result) ELSE pool
        /\ setLog' = IF e.st.sets > 0 /\ cache.enabled
                     THEN [setLog EXCEPT !.phase = "fresh"] ELSE setLog
    /\ UNCHANGED <<rules, opts, now, cop, par, sch, gen, thr>>

\* validator.validateSync(value, context)
ValidateSync(value, ctx) ==
    /\ last.n < MaxCalls
    /\ \E e \in {validateSync(value, ctx)} :
        /\ cache' = e.st.cache
        /\ last' = Called("validateSync", value, ctx, e)
        /\ pool' = IF opts.pool THEN Lend(pool, e.st.created, e.result) ELSE pool
        /\ setLog' = IF e.st.sets > 0 /\ cache.enabled
                     THEN [setLog EXCEPT !.phase = "fresh"] ELSE setLog
    /\ UNCHANGED <<rules, opts, now, cop, par, sch, gen, thr>>

\* validator.rule(rule) on a chain of fewer than most rules
AddRuleUpTo(rule, most) ==
    /\ Len(rules) < most
    /\ rules' = Append(rules, rule)
    /\ UNCHANGED <<opts, cache, now, last, cop, setLog, par, pool, sch, gen, thr>>

\* validator.rule(rule)
AddRule(rule) == AddRuleUpTo(rule, MaxRules)

\* the underlying validator.validate(value) is started: its effect on the
\* validator, its cache and its pool
Underlying(value) ==
    \E e \in {validate(value, NoContext)} :
        /\ cache' = e.st.cache
        /\ last' = Called("validate", value, NoContext, e)
        /\ pool' = IF opts.pool THEN Lend(pool, e.st.created, e.result) ELSE pool

\* throttled.validate(value)
Throttled(value) ==
    /\ thr.calls < MaxThrottled
    /\ thr' = ThrottleCall(thr, value, now)
    /\ IF Len(thr'.starts) > Len(thr.starts) THEN Underlying(value)
       ELSE UNCHANGED <<cache, last, pool>>
    /\ UNCHANGED <<rules, opts, now, cop, setLog, par, sch, gen>>

\* a timer of the throttled validator fires, at or after its due time
ThrottleFire ==
    \E tm \in thr.timers :
        /\ tm.due <= now
        /\ thr' = ThrottleTimer(thr, tm, now)
        /\ IF Len(thr'.starts) > Len(thr.starts) THEN Underlying(thr.lastArgs.value)
           ELSE UNCHANGED <<cache, last, pool>>
        /\ UNCHANGED <<rules, opts, now, cop, setLog, par, sch, gen>>

\* an underlying validate() of the throttled validator resolves
ThrottleSettle ==
    \E k \in 1..Len(thr.running) :
        /\ thr' = ThrottleResume(thr, k, now)
        /\ UNCHANGED <<rules, opts, cache, now, last, cop, setLog, par, pool, sch, gen>>

\* Date.now() advances for a throttled validator
Pass ==
    /\ now < Limit + MaxSpan
    /\ now' = now + 1
    /\ UNCHANGED <<rules, opts, cache, last, cop, setLog, par, pool, sch, gen, thr>>

\* await validator.validateBatch(values, context)
ValidateBatch(values, ctx) ==
    /\ par.phase = "idle"
    /\ \E b \in {validateBatch(values, ctx, cache)} :
        /\ cache' = b.cache
        /\ par' = [par EXCEPT !.phase = "batched", !.values = values, !.ctx = ctx,
                              !.sequential = b.out, !.out = b.out]
    /\ UNCHANGED <<rules, opts, now, last, cop, setLog, pool, sch, gen, thr>>

\* validator.validateParallel(values, context), up to `await Promise.all`;
\* sequential records what validateBatch would return for the same values
\* from the same state
ValidateParallel(values, ctx) ==
    /\ par.phase = "idle"
    /\ \E s \in {StartFrom(1, values, ctx, cache, <<>>)} :
        /\ cache' = s.cache
        /\ par' = [par EXCEPT !.phase = "running", !.values = values, !.ctx = ctx,
                              !.tasks = s.tasks, !.micro = SyncWaiters(s.tasks, 1),
                              !.sequential = validateBatch(values, ctx, cache).out]
    /\ UNCHANGED <<rules, opts, now, last, cop, setLog, pool, sch, gen, thr>>

\* a suspended validate() of validateParallel resumes: one whose predicate
\* returned a plain value when it is first in the microtask queue, one whose
\* predicate returned a promise whenever that promise settles
Resume(k) ==
    /\ par.phase = "running"
    /\ k \in 1..Len(par.tasks)
    /\ par.tasks[k].state = "await"
    /\ par.tasks[k].sync => par.micro # <<>> /\ Head(par.micro) = k
    /\ \E r \in {ResumeTask(par.tasks[k], par.values[k], par.ctx, cache)} :
        /\ cache' = r.cache
        /\ par' = [par EXCEPT
              !.tasks[k] = r.task,
              !.micro = (IF par.tasks[k].sync THEN Tail(@) ELSE @)
                           \o (IF r.task.state = "await" /\ r.task.sync THEN <<k>> ELSE <<>>)]
    /\ UNCHANGED <<rules, opts, now, last, cop, setLog, pool, sch, gen, thr>>

\* Promise.all settles and validateParallel returns { valid, results, failures }
Join ==
    /\ par.phase = "running"
    /\ \A k \in 1..Len(par.tasks) : par.tasks[k].state # "await"
    /\ par' = [par EXCEPT
          !.phase = "joined",
          !.out = IF \E k \in 1..Len(par.tasks) : par.tasks[k].state = "error"
                  THEN BatchError(par.tasks[CHOOSE k \in 1..Len(par.tasks) :
                                                par.tasks[k].state = "error"].err)
                  ELSE BatchResult([k \in 1..Len(par.tasks) |->
                                       [value |-> par.values[k], result |-> par.tasks[k].result]])]
    /\ UNCHANGED <<rules, opts, cache, now, last, cop, setLog, pool, sch, gen, thr>>

\* what a caller writes into a result object it got from the pool
Used == createResult(TRUE, "MSG_CUSTOM", "CUSTOM", NoMeta)

\* pool.acquire()
Acquire ==
    /\ pool.ops < MaxPoolOps
    /\ pool' = [PoolAcquire(pool) EXCEPT !.ops = @ + 1]
    /\ UNCHANGED <<rules, opts, cache, now, last, cop, setLog, par, sch, gen, thr>>

\* pool.release(result), for a result that acquire() handed out at some time
Release(o) ==
    /\ pool.ops < MaxPoolOps
    /\ o \in pool.given
    /\ pool' = [PoolRelease(pool, o) EXCEPT !.ops = @ + 1]
    /\ UNCHANGED <<rules, opts, cache, now, last, cop, setLog, par, sch, gen, thr>>

\* pool.clear()
ClearPool ==
    /\ pool.ops < MaxPoolOps
    /\ pool' = [PoolClear(pool) EXCEPT !.ops = @ + 1]
    /\ UNCHANGED <<rules, opts, cache, now, last, cop, setLog, par, sch, gen, thr>>

\* pool.resetStats()
ResetPoolStats ==
    /\ pool.ops < MaxPoolOps
    /\ pool' = [PoolResetStats(pool) EXCEPT !.ops = @ + 1]
    /\ UNCHANGED <<rules, opts, cache, now, last, cop, setLog, par, sch, gen, thr>>

\* pool.enable() on a disabled pool, pool.disable() on an enabled one
SwitchPool ==
    /\ pool.ops < MaxPoolOps
    /\ pool' = [(IF pool.enabled THEN PoolDisable(pool) ELSE PoolEnable(pool))
                    EXCEPT !.ops = @ + 1]
    /\ UNCHANGED <<rules, opts, cache, now, last, cop, setLog, par, sch, gen, thr>>

\* the caller assigns the fields of a result it got from the pool
Write(o) ==
    /\ o \in pool.given
    /\ pool.heap[o] # Used
    /\ pool' = [pool EXCEPT !.heap[o] = Used, !.written = @ \cup {o}]
    /\ UNCHANGED <<rules, opts, cache, now, last, cop, setLog, par, sch, gen, thr>>

\* await schemaValidator.validate(data)
SchemaValidate(data) ==
    /\ sch' = [sch EXCEPT !.data = data, !.out = schemaValidate(data)]
    /\ UNCHANGED <<rules, opts, cache, now, last, cop, setLog, par, pool, gen, thr>>

-----------------------------------------------------------------------------
(* Specification of error containment: chains of caller-supplied predicates  *)
(* that return, throw, resolve or reject, under every onError hook (none,    *)
(* one that returns, one that throws), with and without a cache.             *)

RulesErr == {Rule(<<>>, FALSE, kind) : kind \in Outcomes} \cup {Rule(StrA, FALSE, "pOk")}

Init ==
    /\ rules = <<>>
    /\ opts \in {[cache |-> c, pool |-> FALSE, stopOnFirstError |-> TRUE, onError |-> h] : c \in BOOLEAN, h \in {"none", "returns", "throws"}}
    /\ cache = NewCache(MaxCap, 0)
    /\ now = 0
    /\ last = NoCall
    /\ cop = NoOp
    /\ setLog = NoSets
    /\ par = NoPar
    /\ pool = NoPool
    /\ sch = NoSch
    /\ gen = NoGen
    /\ thr = NoThrottle

Next ==
    \/ \E rule \in RulesErr : AddRule(rule)
    \/ Validate(Str(StrX), NoContext)
    \/ ValidateSync(Str(StrX), NoContext)

Spec == Init /\ [][Next]_vars

-----------------------------------------------------------------------------
(* Specification of empty and required values: chains of required and        *)
(* optional named rules, validated with null, undefined, '' and 'x', with    *)
(* and without formData, on a validator with a cache.                        *)

RulesEmpty ==
    {Rule(StrA, req, "bad") : req \in BOOLEAN}
        \cup {Rule(StrA, FALSE, kind) : kind \in {"required", "requiredIf"}}

ValuesEmpty == {Null, Undefined, Str(StrEmpty), Str(StrX)}

ContextsEmpty == {NoContext, FormData(Str(StrX))}

InitEmpty ==
    /\ rules = <<>>
    /\ opts = [cache |-> TRUE, pool |-> FALSE, stopOnFirstError |-> TRUE, onError |-> "none"]
    /\ cache = NewCache(MaxCap, 0)
    /\ now = 0
    /\ last = NoCall
    /\ cop = NoOp
    /\ setLog = NoSets
    /\ par = NoPar
    /\ pool = NoPool
    /\ sch = NoSch
    /\ gen = NoGen
    /\ thr = NoThrottle

NextEmpty ==
    \/ \E rule \in RulesEmpty : AddRule(rule)
    \/ \E value \in ValuesEmpty, ctx \in ContextsEmpty : Validate(value, ctx)
    \/ \E value \in ValuesEmpty, ctx \in ContextsEmpty : ValidateSync(value, ctx)

SpecEmpty == InitEmpty /\ [][NextEmpty]_vars

-----------------------------------------------------------------------------
(* Specification of cached validation: chains of named rules, and of an      *)
(* unnamed one, on a validator with a cache of any capacity and ttl, called  *)
(* with 'x' and 'y' while the clock runs.                                    *)

RulesCached ==
    {Rule(StrA, FALSE, "ok"), Rule(StrB, FALSE, "ok"), Rule(StrB, FALSE, "bad"),
     Rule(<<>>, FALSE, "ok")}

ValuesCached == {Str(StrX), Str(StrY)}

InitCached ==
    /\ rules = <<>>
    /\ opts = [cache |-> TRUE, pool |-> FALSE, stopOnFirstError |-> TRUE, onError |-> "none"]
    /\ cache \in {NewCache(m, t) : m \in 1..MaxCap, t \in Ttls}
    /\ now = 0
    /\ last = NoCall
    /\ cop = NoOp
    /\ setLog = NoSets
    /\ par = NoPar
    /\ pool = NoPool
    /\ sch = NoSch
    /\ gen = NoGen
    /\ thr = NoThrottle

NextCached ==
    \/ Tick
    \/ \E rule \in RulesCached : AddRule(rule)
    \/ \E value \in ValuesCached : Validate(value, NoContext)

SpecCached == InitCached /\ [][NextCached]_vars

-----------------------------------------------------------------------------
(* Specification of cross-field validation: a chain with matchField, named   *)
(* as the composer names it or unnamed, with and without a cache, called     *)
(* with 'x' and 'y' and with formData whose field is 'x' or 'y'.             *)

RulesCross ==
    {Rule(name, FALSE, "matchField") : name \in {<<>>, StrMatchField}}
        \cup {Rule(StrA, FALSE, "ok")}

ValuesCross == {Str(StrX), Str(StrY)}

ContextsCross == {NoContext, FormData(Str(StrX)), FormData(Str(StrY))}

InitCross ==
    /\ rules = <<>>
    /\ opts \in {[cache |-> c, pool |-> FALSE, stopOnFirstError |-> TRUE, onError |-> "none"] : c \in BOOLEAN}
    /\ cache = NewCache(MaxCap, 0)
    /\ now = 0
    /\ last = NoCall
    /\ cop = NoOp
    /\ setLog = NoSets
    /\ par = NoPar
    /\ pool = NoPool
    /\ sch = NoSch
    /\ gen = NoGen
    /\ thr = NoThrottle

NextCross ==
    \/ \E rule \in RulesCross : AddRule(rule)
    \/ \E value \in ValuesCross, ctx \in ContextsCross : Validate(value, ctx)
    \/ \E value \in ValuesCross, ctx \in ContextsCross : ValidateSync(value, ctx)

SpecCross == InitCross /\ [][NextCross]_vars

-----------------------------------------------------------------------------
(* Specification of a RuleCache used directly: set, get, has and the sweep of *)
(* lapsed entries, while the clock runs                                      *)

InitCache ==
    /\ rules = <<>>
    /\ opts = [cache |-> FALSE, pool |-> FALSE, stopOnFirstError |-> TRUE, onError |-> "none"]
    /\ cache \in {NewCache(m, t) : m \in 0..MaxCap, t \in Ttls}
    /\ now = 0
    /\ last = NoCall
    /\ cop = NoOp
    /\ setLog = NoSets
    /\ par = NoPar
    /\ pool = NoPool
    /\ sch = NoSch
    /\ gen = NoGen
    /\ thr = NoThrottle

NextCache ==
    \/ Tick
    \/ Clean
    \/ \E key \in CacheKeys : Set(key)
    \/ \E key \in CacheKeys : Get(key)
    \/ \E key \in CacheKeys : Has(key)

SpecCache == InitCache /\ [][NextCache]_vars

-----------------------------------------------------------------------------
(* Specification of rule order: chains of unnamed rules that each carry a    *)
(* message of their own, on validators with and without stopOnFirstError,    *)
(* called with 'x'.                                                          *)

Messages == {"first", "second"}

RulesOrder ==
    {[Rule(<<>>, FALSE, kind) EXCEPT !.message = m] :
        kind \in {"ok", "bad", "pOk", "pBad"}, m \in Messages}

InitOrder ==
    /\ rules = <<>>
    /\ opts \in {[cache |-> FALSE, pool |-> FALSE, stopOnFirstError |-> b, onError |-> "none"] : b \in BOOLEAN}
    /\ cache = NewCache(MaxCap, 0)
    /\ now = 0
    /\ last = NoCall
    /\ cop = NoOp
    /\ setLog = NoSets
    /\ par = NoPar
    /\ pool = NoPool
    /\ sch = NoSch
    /\ gen = NoGen
    /\ thr = NoThrottle

NextOrder ==
    \/ \E rule \in RulesOrder : AddRule(rule)
    \/ Validate(Str(StrX), NoContext)

SpecOrder == InitOrder /\ [][NextOrder]_vars

-----------------------------------------------------------------------------
(* Specification of batch validation: chains of pure predicates, two of them *)
(* under one name, on validators with and without a cache, called once with  *)
(* a list of values through validateBatch or through validateParallel, whose *)
(* validate() calls resume in every order the event loop allows.             *)

MaxChain == 3
MaxBatch == 2

RulesBatch ==
    {Rule(StrA, FALSE, "ok"), Rule(StrB, FALSE, "ok"), Rule(StrB, FALSE, "pOk"),
     Rule(StrA, FALSE, "bad")}

ValueLists ==
    UNION {[1..n -> {Str(StrX), Str(StrY)}] : n \in 0..MaxBatch}

InitBatch ==
    /\ rules = <<>>
    /\ opts \in {[cache |-> c, pool |-> FALSE, stopOnFirstError |-> TRUE, onError |-> "none"] : c \in BOOLEAN}
    /\ cache \in {NewCache(m, 0) : m \in 1..MaxCap}
    /\ now = 0
    /\ last = NoCall
    /\ cop = NoOp
    /\ setLog = NoSets
    /\ par = NoPar
    /\ pool = NoPool
    /\ sch = NoSch
    /\ gen = NoGen
    /\ thr = NoThrottle

NextBatch ==
    \/ \E rule \in RulesBatch : par.phase = "idle" /\ AddRuleUpTo(rule, MaxChain)
    \/ \E values \in ValueLists : ValidateBatch(values, NoContext)
    \/ \E values \in ValueLists : ValidateParallel(values, NoContext)
    \/ \E k \in 1..MaxBatch : Resume(k)
    \/ Join

SpecBatch == InitBatch /\ [][NextBatch]_vars

-----------------------------------------------------------------------------
(* Specification of the ResultPool used directly: pools of every initialSize *)
(* and maxSize, enabled or not, whose caller acquires results, writes into   *)
(* them and releases them, also more than once.                              *)

InitPool ==
    /\ rules = <<>>
    /\ opts = [cache |-> FALSE, pool |-> FALSE, stopOnFirstError |-> TRUE, onError |-> "none"]
    /\ cache = NewCache(MaxCap, 0)
    /\ now = 0
    /\ last = NoCall
    /\ cop = NoOp
    /\ setLog = NoSets
    /\ par = NoPar
    /\ pool \in {NewPool(i, m, e) : i \in 0..MaxInitial, m \in 0..MaxPoolSize, e \in BOOLEAN}
    /\ sch = NoSch
    /\ gen = NoGen
    /\ thr = NoThrottle

NextPool ==
    \/ Acquire
    \/ \E o \in 1..(MaxInitial + MaxPoolOps) : Release(o)
    \/ \E o \in 1..(MaxInitial + MaxPoolOps) : Write(o)

SpecPool == InitPool /\ [][NextPool]_vars

-----------------------------------------------------------------------------
(* Specification of pooled validation: a validator with a pool of its own,   *)
(* whose caller adds rules and validates and never calls release().          *)

RulesPooled ==
    {Rule(<<>>, FALSE, "ok"), Rule(<<>>, TRUE, "ok"), Rule(<<>>, FALSE, "bad"),
     Rule(<<>>, FALSE, "throwErr")}

ValuesPooled == {Str(StrEmpty), Str(StrX)}

InitPooled ==
    /\ rules = <<>>
    /\ opts = [cache |-> FALSE, pool |-> TRUE, stopOnFirstError |-> TRUE, onError |-> "none"]
    /\ cache = NewCache(MaxCap, 0)
    /\ now = 0
    /\ last = NoCall
    /\ cop = NoOp
    /\ setLog = NoSets
    /\ par = NoPar
    /\ pool \in {NewPool(i, m, TRUE) : i \in 0..MaxInitial, m \in 0..MaxPoolSize}
    /\ sch = NoSch
    /\ gen = NoGen
    /\ thr = NoThrottle

NextPooled ==
    \/ \E rule \in RulesPooled : AddRule(rule)
    \/ \E value \in ValuesPooled : Validate(value, NoContext)
    \/ \E value \in ValuesPooled : ValidateSync(value, NoContext)

\* every step of the validator that can be taken is taken
SpecPooled == InitPooled /\ [][NextPooled]_vars /\ WF_vars(NextPooled)

-----------------------------------------------------------------------------
(* Specification of schema validation: schemas of up to MaxFields fields,    *)
(* written in every order, whose rules require, default, transform and run   *)
(* custom validators that return, throw or reject; validated against records *)
(* that set or leave out each field.                                         *)

SchemaRules ==
    {[NoSchemaRule EXCEPT !.required = TRUE],
     [NoSchemaRule EXCEPT !.validator = "ok"],
     [NoSchemaRule EXCEPT !.validator = "bad"],
     [NoSchemaRule EXCEPT !.validator = "throwErr"],
     [NoSchemaRule EXCEPT !.validator = "rejectErr"],
     [NoSchemaRule EXCEPT !.transform = "fnThrow"],
     [NoSchemaRule EXCEPT !.default = Str(StrX), !.transform = "fn"]}

RuleLists ==
    {<<rule>> : rule \in SchemaRules}
        \cup {<<[NoSchemaRule EXCEPT !.required = TRUE], [NoSchemaRule EXCEPT !.validator = "bad"]>>}

Entries == {[field |-> f, rules |-> rs] : f \in FieldNames, rs \in RuleLists}

Schemas ==
    UNION {{decl \in [1..n -> Entries] :
               \A i, j \in 1..n : i # j => decl[i].field # decl[j].field} : n \in 1..MaxFields}

Records ==
    {[f \in AllFields |-> IF f \in present THEN Str(StrX) ELSE Undefined] :
        present \in SUBSET FieldNames}

InitSchema ==
    /\ rules = <<>>
    /\ opts = [cache |-> FALSE, pool |-> FALSE, stopOnFirstError |-> TRUE, onError |-> "none"]
    /\ cache = NewCache(MaxCap, 0)
    /\ now = 0
    /\ last = NoCall
    /\ cop = NoOp
    /\ setLog = NoSets
    /\ par = NoPar
    /\ pool = NoPool
    /\ gen = NoGen
    /\ thr = NoThrottle
    /\ sch \in {NewSchemaValidator(decl, stop, auto) :
                   decl \in Schemas, stop \in BOOLEAN, auto \in BOOLEAN}

NextSchema == \E data \in Records : SchemaValidate(data)

SpecSchema == InitSchema /\ [][NextSchema]_vars

-----------------------------------------------------------------------------
(* Specification of array fields: a schema whose field tags is an array with *)
(* an element rule of type 'string' that asks for a least length, written as *)
(* minLength or as min, validated against arrays of the strings '', 'a' and  *)
(* 'ok'.                                                                     *)

StrOk == <<111, 107>>

ItemRules ==
    {[NoSchemaRule EXCEPT !.type = "string", !.minLength = k] : k \in 1..MaxMin}
        \cup {[NoSchemaRule EXCEPT !.type = "string", !.min = k] : k \in 1..MaxMin}

ArraySchemas ==
    {<<[field |-> "tags",
        rules |-> <<[NoSchemaRule EXCEPT !.type = "array", !.items = <<items>>]>>]>> :
        items \in ItemRules}

Arrays ==
    UNION {{Arr(items) : items \in [1..n -> {Str(StrEmpty), Str(StrA), Str(StrOk)}]} :
              n \in 0..MaxItems}

ArrayRecords ==
    {[f \in AllFields |-> IF f = "tags" THEN arr ELSE Undefined] : arr \in Arrays}

InitItems ==
    /\ rules = <<>>
    /\ opts = [cache |-> FALSE, pool |-> FALSE, stopOnFirstError |-> TRUE, onError |-> "none"]
    /\ cache = NewCache(MaxCap, 0)
    /\ now = 0
    /\ last = NoCall
    /\ cop = NoOp
    /\ setLog = NoSets
    /\ par = NoPar
    /\ pool = NoPool
    /\ gen = NoGen
    /\ thr = NoThrottle
    /\ sch \in {NewSchemaValidator(decl, stop, FALSE) : decl \in ArraySchemas, stop \in BOOLEAN}

NextItems == \E data \in ArrayRecords : SchemaValidate(data)

SpecItems == InitItems /\ [][NextItems]_vars

-----------------------------------------------------------------------------
(* Specification of defaults and transforms: schemas whose field a declares  *)
(* a default, a transform or both, alone or next to a field (b, or the       *)
(* integer-like 0) whose validator reads a from formData, written in either  *)
(* order, with and without autoTransform; validated against records that set *)
(* each field to 'x' or 'X' or leave it out.                                 *)

StrUpperX == <<88>>                                     \* 'X'

\* the rules of field a
FlowRules ==
    {<<[NoSchemaRule EXCEPT !.default = Str(StrX)]>>,
     <<[NoSchemaRule EXCEPT !.required = TRUE]>>,
     <<[NoSchemaRule EXCEPT !.required = TRUE, !.default = Str(StrX)]>>,
     <<[NoSchemaRule EXCEPT !.required = TRUE, !.default = Str(StrEmpty)]>>,
     <<[NoSchemaRule EXCEPT !.type = "number", !.min = 18, !.default = Num(18)]>>,
     <<[NoSchemaRule EXCEPT !.type = "number", !.min = 18, !.default = Num(17)]>>,
     <<[NoSchemaRule EXCEPT !.transform = "toUpperCase"]>>,
     <<[NoSchemaRule EXCEPT !.default = Str(StrX), !.transform = "toUpperCase"]>>,
     <<[NoSchemaRule EXCEPT !.type = "string"],
       [NoSchemaRule EXCEPT !.required = TRUE, !.default = Str(StrX), !.transform = "fn"]>>}

\* the rules of the field that reads a: matchField('a') and requiredIf('a')
ReaderRules ==
    {<<[NoSchemaRule EXCEPT !.validator = "matchField", !.path = "a"]>>,
     <<[NoSchemaRule EXCEPT !.validator = "requiredIf", !.path = "a"]>>,
     <<[NoSchemaRule EXCEPT !.transform = "toUpperCase", !.validator = "matchField",
                            !.path = "a"]>>}

FlowSchemas ==
    {<<[field |-> "a", rules |-> rs]>> : rs \in FlowRules}
        \cup {<<[field |-> "a", rules |-> rs], [field |-> f, rules |-> qs]>> :
                 rs \in FlowRules, qs \in ReaderRules, f \in {"b", "0"}}
        \cup {<<[field |-> f, rules |-> qs], [field |-> "a", rules |-> rs]>> :
                 rs \in FlowRules, qs \in ReaderRules, f \in {"b", "0"}}

\* records { a, b, 0 } whose fields b and 0 hold the same value
FlowRecords ==
    {[f \in AllFields |-> IF f = "a" THEN va ELSE IF f \in {"b", "0"} THEN vr ELSE Undefined] :
        va \in {Undefined, Str(StrX), Str(StrUpperX)},
        vr \in {Undefined, Str(StrX), Str(StrUpperX)}}

InitFlow ==
    /\ rules = <<>>
    /\ opts = [cache |-> FALSE, pool |-> FALSE, stopOnFirstError |-> TRUE, onError |-> "none"]
    /\ cache = NewCache(MaxCap, 0)
    /\ now = 0
    /\ last = NoCall
    /\ cop = NoOp
    /\ setLog = NoSets
    /\ par = NoPar
    /\ pool = NoPool
    /\ gen = NoGen
    /\ thr = NoThrottle
    /\ sch \in {NewSchemaValidator(decl, stop, auto) :
                   decl \in FlowSchemas, stop \in BOOLEAN, auto \in BOOLEAN}

NextFlow == \E data \in FlowRecords : SchemaValidate(data)

SpecFlow == InitFlow /\ [][NextFlow]_vars

-----------------------------------------------------------------------------
(* Specification of the checks of one field: a schema { a: rule } whose rule *)
(* declares any of required, type, min, max, pattern, enum, items and a      *)
(* custom validator that passes or fails; validated against records whose    *)
(* field a is absent, null, a string or an array.                            *)

StrXY == <<120, 121>>                                   \* 'xy'

\* the rules of the field a
CheckRules ==
    {[NoSchemaRule EXCEPT !.required = r, !.type = t, !.min = mn, !.max = mx,
                          !.pattern = p, !.enum = e, !.items = i, !.validator = v] :
        r \in BOOLEAN, t \in {"none", "string", "array"}, mn \in {Absent, 2},
        mx \in {Absent, 1}, p \in {"none", "x"},
        e \in {<<>>, <<(<<Str(StrX), Str(StrXY)>>)>>},
        i \in {<<>>, <<[NoSchemaRule EXCEPT !.type = "string", !.min = 2]>>},
        v \in {"none", "ok", "bad"}}

\* the values of the field a
CheckValues ==
    <<Undefined, Null, Str(StrEmpty), Str(StrX), Str(StrY), Str(StrXY),
      Arr(<<>>), Arr(<<Str(StrX)>>), Arr(<<Str(StrXY), Str(StrXY)>>)>>

InitChecks ==
    /\ rules = <<>>
    /\ opts = [cache |-> FALSE, pool |-> FALSE, stopOnFirstError |-> TRUE, onError |-> "none"]
    /\ cache = NewCache(MaxCap, 0)
    /\ now = 0
    /\ last = NoCall
    /\ cop = NoOp
    /\ setLog = NoSets
    /\ par = NoPar
    /\ pool = NoPool
    /\ gen = NoGen
    /\ thr = NoThrottle
    /\ sch \in {NewSchemaValidator(<<[field |-> "a", rules |-> <<rule>>]>>, FALSE, FALSE) :
                   rule \in CheckRules}

NextChecks ==
    \E i \in 1..Len(CheckValues) :
        SchemaValidate([f \in AllFields |-> IF f = "a" THEN CheckValues[i] ELSE Undefined])

SpecChecks == InitChecks /\ [][NextChecks]_vars

-----------------------------------------------------------------------------
(* Specification of rule-level messages: chains of named rules that fail,    *)
(* without a message of their own, with a string or with a function of the   *)
(* value and the context, on a validator with a cache, called with 'x' and   *)
(* 'y' and with formData whose field is 'x' or 'y'.                          *)

RulesMessage ==
    {Rule(StrA, FALSE, "bad"),
     [Rule(StrA, FALSE, "bad") EXCEPT !.message = "MSG_RULE"],
     [Rule(StrA, FALSE, "bad") EXCEPT !.fn = TRUE],
     [Rule(StrB, FALSE, "matchField") EXCEPT !.fn = TRUE]}

ValuesMessage == {Str(StrX), Str(StrY)}

ContextsMessage == {NoContext, FormData(Str(StrX)), FormData(Str(StrY))}

InitMessage ==
    /\ rules = <<>>
    /\ opts = [cache |-> TRUE, pool |-> FALSE, stopOnFirstError |-> TRUE, onError |-> "none"]
    /\ cache = NewCache(MaxCap, 0)
    /\ now = 0
    /\ last = NoCall
    /\ cop = NoOp
    /\ setLog = NoSets
    /\ par = NoPar
    /\ pool = NoPool
    /\ sch = NoSch
    /\ gen = NoGen
    /\ thr = NoThrottle

NextMessage ==
    \/ \E rule \in RulesMessage : AddRule(rule)
    \/ \E value \in ValuesMessage, ctx \in ContextsMessage : Validate(value, ctx)

SpecMessage == InitMessage /\ [][NextMessage]_vars

-----------------------------------------------------------------------------
(* Specifications of the life of a RuleCache used directly.                  *)

\* the keys handed to set(), get(), has() and delete(): 'a', 'b'
LifeKeys == {StrA, StrB}

\* a validator without rules, and a cache that nothing has touched
InitLife(caches) ==
    /\ rules = <<>>
    /\ opts = [cache |-> TRUE, pool |-> FALSE, stopOnFirstError |-> TRUE, onError |-> "none"]
    /\ cache \in caches
    /\ now = 0
    /\ last = NoCall
    /\ cop = NoOp
    /\ setLog = NoSets
    /\ par = NoPar
    /\ pool = NoPool
    /\ sch = NoSch
    /\ gen = NoGen
    /\ thr = NoThrottle

(* SpecToggle: a cache of MaxCap entries, with and without ttl; the caller   *)
(* sets and gets two keys and disables and enables the cache while the clock *)
(* runs.                                                                     *)
InitToggle == InitLife({NewRuleCache(MaxCap, t, FALSE) : t \in Ttls})

NextToggle ==
    \/ Tick
    \/ Enable
    \/ Disable
    \/ \E key \in LifeKeys : Set(key)
    \/ \E key \in LifeKeys : GetUpTo(key, MaxReads + 1)

SpecToggle == InitToggle /\ [][NextToggle]_vars

(* SpecStats: the same caches; the caller sets, gets, tests and deletes one  *)
(* key, sweeps, clears, resets the statistics and disables and enables the   *)
(* cache while the clock runs.                                               *)
InitStats == InitLife({NewRuleCache(MaxCap, t, FALSE) : t \in Ttls})

NextStats ==
    \/ Tick
    \/ Clean
    \/ Clear
    \/ ResetStats
    \/ Enable
    \/ Disable
    \/ Set(StrA)
    \/ GetUpTo(StrA, MaxReads + 1)
    \/ HasUpTo(StrA, MaxReads + 1)
    \/ Delete(StrA)

SpecStats == InitStats /\ [][NextStats]_vars

(* SpecBound: caches of every maxSize from 1 with a ttl, shared by a         *)
(* validator of one rule; the caller stores one result directly, gets, tests *)
(* and deletes its key, sweeps, clears, disables and enables the cache and   *)
(* validates a value through the validator while the clock runs.             *)
InitBound == InitLife({NewRuleCache(m, 1, FALSE) : m \in 1..MaxCap})

NextBound ==
    \/ Tick
    \/ Clean
    \/ Clear
    \/ Enable
    \/ Disable
    \/ setLog.keys = <<>> /\ Set(StrA)
    \/ Get(StrA)
    \/ Has(StrA)
    \/ Delete(StrA)
    \/ AddRuleUpTo(Rule(StrA, FALSE, "ok"), 1)
    \/ Len(rules) = 1 /\ Validate(Str(StrX), NoContext)

SpecBound == InitBound /\ [][NextBound]_vars

(* SpecSweep: caches created with a ttl and autoCleanup; the caller sets and *)
(* gets two keys and destroys the cache, after which it makes no further     *)
(* call, while the clock runs and the timer fires.                           *)
InitSweep == InitLife({NewRuleCache(m, 1, TRUE) : m \in 1..MaxCap})

NextSweep ==
    \/ Tick
    \/ Sweep
    \/ /\ ~setLog.destroyed
       /\ \/ Destroy
          \/ \E key \in LifeKeys : Set(key)
          \/ \E key \in LifeKeys : Get(key)

SpecSweep == InitSweep /\ [][NextSweep]_vars

-----------------------------------------------------------------------------
(* Specification of validators given their instances: createValidator is     *)
(* handed a cache c and a pool p, with and without the cache and pool flags; *)
(* the caller adds named rules and validates.  The variables cache and pool  *)
(* are c and p.                                                              *)

GivenOptions ==
    {[cache |-> c, cacheInstance |-> TRUE, pool |-> p, poolInstance |-> TRUE,
      stopOnFirstError |-> TRUE, onError |-> "none"] : c \in BOOLEAN, p \in BOOLEAN}

RulesGiven == {Rule(StrA, FALSE, "ok"), Rule(StrB, FALSE, "bad")}

ValuesGiven == {Str(StrX), Str(StrY)}

InitGiven ==
    /\ rules = <<>>
    /\ opts \in {NewValidator(options) : options \in GivenOptions}
    /\ cache \in {NewCache(m, 0) : m \in 1..MaxCap}
    /\ now = 0
    /\ last = NoCall
    /\ cop = NoOp
    /\ setLog = NoSets
    /\ par = NoPar
    /\ pool \in {NewPool(i, MaxPoolSize, TRUE) : i \in 0..MaxInitial}
    /\ sch = NoSch
    /\ gen = NoGen
    /\ thr = NoThrottle

NextGiven ==
    \/ \E rule \in RulesGiven : AddRule(rule)
    \/ \E value \in ValuesGiven : Validate(value, NoContext)
    \/ \E value \in ValuesGiven : ValidateSync(value, NoContext)

SpecGiven == InitGiven /\ [][NextGiven]_vars

-----------------------------------------------------------------------------
(* Specification of key generation: the caller asks a cache for the keys of  *)
(* values under rule names with and without extra parameters.                *)

ValuesKeys == {Str(StrX), Num(1)}

NamesKeys == {StrA, StrB}

\* params: absent, null, 0, 1, 2, '', '1', false, true
ParamsKeys ==
    {Undefined, Null, Num(0), Num(1), Num(2), Str(StrEmpty), Str(Str1),
     Bool(FALSE), Bool(TRUE)}

InitKeys ==
    /\ rules = <<>>
    /\ opts = [cache |-> FALSE, pool |-> FALSE, stopOnFirstError |-> TRUE, onError |-> "none"]
    /\ cache = NewCache(MaxCap, 0)
    /\ now = 0
    /\ last = NoCall
    /\ cop = NoOp
    /\ setLog = NoSets
    /\ par = NoPar
    /\ pool = NoPool
    /\ sch = NoSch
    /\ gen = NoGen
    /\ thr = NoThrottle

NextKeys ==
    \E value \in ValuesKeys, ruleName \in NamesKeys, params \in ParamsKeys :
        GenerateKey(value, ruleName, params)

SpecKeys == InitKeys /\ [][NextKeys]_vars

-----------------------------------------------------------------------------
(* Specification of a throttled validator: throttle(validator, Limit) with   *)
(* the default options around a validator of one rule; the caller calls      *)
(* validate() at any time, the timers fire at or after their due time and    *)
(* the underlying validations resolve at any time.  The clock starts at      *)
(* Limit: Date.now() is far beyond the initial lastCallTime of 0.            *)

InitThrottle ==
    /\ rules = <<Rule(<<>>, FALSE, "ok")>>
    /\ opts = [cache |-> FALSE, pool |-> FALSE, stopOnFirstError |-> TRUE, onError |-> "none"]
    /\ cache = NewCache(MaxCap, 0)
    /\ now = Limit
    /\ last = NoCall
    /\ cop = NoOp
    /\ setLog = NoSets
    /\ par = NoPar
    /\ pool = NoPool
    /\ sch = NoSch
    /\ gen = NoGen
    /\ thr = NewThrottle(TRUE, TRUE)

NextThrottle ==
    \/ Pass
    \/ Throttled(Str(StrX))
    \/ ThrottleFire
    \/ ThrottleSettle

SpecThrottle == InitThrottle /\ [][NextThrottle]_vars

-----------------------------------------------------------------------------
(* Specification of typed values: validators with and without a cache whose  *)
(* chains of distinctly named pure predicates are run on strings and         *)
(* numbers.                                                                  *)

RulesTyped ==
    {Rule(StrA, FALSE, "isString"), Rule(StrB, FALSE, "ok"), Rule(StrB, FALSE, "bad")}

\* '1', 1, 'x'
ValuesTyped == {Str(Str1), Num(1), Str(StrX)}

InitTyped ==
    /\ rules = <<>>
    /\ opts \in {[cache |-> c, pool |-> FALSE, stopOnFirstError |-> TRUE, onError |-> "none"] :
                    c \in BOOLEAN}
    /\ cache \in {NewCache(m, 0) : m \in 1..MaxCap}
    /\ now = 0
    /\ last = NoCall
    /\ cop = NoOp
    /\ setLog = NoSets
    /\ par = NoPar
    /\ pool = NoPool
    /\ sch = NoSch
    /\ gen = NoGen
    /\ thr = NoThrottle

NextTyped ==
    \/ \E rule \in RulesTyped : rule.name \notin {rules[i].name : i \in 1..Len(rules)} /\ AddRule(rule)
    \/ \E value \in ValuesTyped : Validate(value, NoContext)

SpecTyped == InitTyped /\ [][NextTyped]_vars

-----------------------------------------------------------------------------
(* Specification of rules that share a name: validators with and without a   *)
(* cache whose chains hold rules of one name with different predicates.      *)

RulesNamesake ==
    {Rule(StrA, FALSE, "ok"), Rule(StrA, FALSE, "bad"), Rule(StrA, FALSE, "isString"),
     Rule(StrB, FALSE, "bad")}

ValuesNamesake == {Str(StrX), Num(1)}

InitNamesake ==
    /\ rules = <<>>
    /\ opts \in {[cache |-> c, pool |-> FALSE, stopOnFirstError |-> TRUE, onError |-> "none"] :
                    c \in BOOLEAN}
    /\ cache \in {NewCache(m, 0) : m \in 1..MaxCap}
    /\ now = 0
    /\ last = NoCall
    /\ cop = NoOp
    /\ setLog = NoSets
    /\ par = NoPar
    /\ pool = NoPool
    /\ sch = NoSch
    /\ gen = NoGen
    /\ thr = NoThrottle

NextNamesake ==
    \/ \E rule \in RulesNamesake : AddRule(rule)
    \/ \E value \in ValuesNamesake : Validate(value, NoContext)

SpecNamesake == InitNamesake /\ [][NextNamesake]_vars

-----------------------------------------------------------------------------
(* Specification of cached faults: chains of named rules whose predicate     *)
(* throws, rejects, throws null or answers with a promise, on a validator    *)
(* with a cache of any capacity and ttl and with or without an onError hook, *)
(* called with 'x' through validate() and validateSync() while the clock     *)
(* runs and the cache is cleared.                                            *)

RulesFaults ==
    {Rule(StrA, FALSE, kind) : kind \in {"throwErr", "rejectErr", "throwNull", "pOk"}}
        \cup {Rule(StrB, FALSE, "ok")}

InitFaults ==
    /\ rules = <<>>
    /\ opts \in {[cache |-> TRUE, pool |-> FALSE, stopOnFirstError |-> TRUE, onError |-> h] :
                    h \in {"none", "returns"}}
    /\ cache \in {NewCache(m, t) : m \in 1..MaxCap, t \in Ttls}
    /\ now = 0
    /\ last = NoCall
    /\ cop = NoOp
    /\ setLog = NoSets
    /\ par = NoPar
    /\ pool = NoPool
    /\ sch = NoSch
    /\ gen = NoGen
    /\ thr = NoThrottle

NextFaults ==
    \/ Tick
    \/ Clear
    \/ \E rule \in RulesFaults : AddRule(rule)
    \/ Validate(Str(StrX), NoContext)
    \/ ValidateSync(Str(StrX), NoContext)

SpecFaults == InitFaults /\ [][NextFaults]_vars

-----------------------------------------------------------------------------
(* Specification of the pool's statistics: pools of every initialSize and    *)
(* maxSize, enabled or not, whose caller acquires and releases results,      *)
(* clears the pool, resets its statistics and switches it off and on.        *)

InitRate ==
    /\ rules = <<>>
    /\ opts = [cache |-> FALSE, pool |-> FALSE, stopOnFirstError |-> TRUE, onError |-> "none"]
    /\ cache = NewCache(MaxCap, 0)
    /\ now = 0
    /\ last = NoCall
    /\ cop = NoOp
    /\ setLog = NoSets
    /\ par = NoPar
    /\ pool \in {NewPool(i, m, e) : i \in 0..MaxInitial, m \in 0..MaxPoolSize, e \in BOOLEAN}
    /\ sch = NoSch
    /\ gen = NoGen
    /\ thr = NoThrottle

NextRate ==
    \/ Acquire
    \/ \E o \in 1..(MaxInitial + MaxPoolOps) : Release(o)
    \/ ClearPool
    \/ ResetPoolStats
    \/ SwitchPool

SpecRate == InitRate /\ [][NextRate]_vars

-----------------------------------------------------------------------------
(* Claims about error containment (under Spec) *)

\* the rule whose predicate the latest call invoked last
LastInvoked == rules[last.invoked[Len(last.invoked)]]

\* C1: whenever a predicate invoked by validate() throws or returns a promise
\* that rejects, validate() resolves with { valid: false, code: 'RULE_ERROR' },
\* and the onError hook, if one is configured, has been invoked exactly once,
\* with that error, that rule and the value.
C1_ErrorsContained ==
    (last.api = "validate" /\ last.raised)
        => /\ last.kind = "result"
           /\ ~last.result.valid
           /\ last.result.code = "RULE_ERROR"
           /\ opts.onError # "none"
                => last.hooked = <<[error |-> Predicate(LastInvoked, last.value, last.ctx).err,
                                    rule  |-> LastInvoked,
                                    value |-> last.value]>>

\* C2: whenever a rule that validateSync() executes returns a Promise,
\* validateSync() throws an error that names the rule instead of returning a
\* result.
C2_SyncThrows ==
    (last.api = "validateSync" /\ last.promised)
        => /\ last.kind = "error"
           /\ last.err.tag = "AsyncRule"
           /\ last.err.rule = (IF LastInvoked.name # <<>> THEN LastInvoked.name ELSE StrUnknown)

\* the members of a sequence of rule indices
Range(seq) == {seq[k] : k \in 1..Len(seq)}

\* C11: for a rule without a name, whatever the cache configuration, neither
\* validate() nor validateSync() makes a cache get or set: the rule's predicate
\* is invoked every time a call reaches the rule with a non-empty value, and a
\* chain of unnamed rules leaves the cache's size, hits and misses as they were.
C11_UnnamedBypassCache ==
    /\ \A i \in 1..last.nrules :
          rules[i].name = <<>>
              => /\ i \notin Range(last.looked)
                 /\ i \notin Range(last.stored)
                 /\ i \in Range(last.reached) => i \in Range(last.invoked)
    /\ (\A i \in 1..Len(rules) : rules[i].name = <<>>)
          => getStats(cache) = getStats(NewCache(cache.maxSize, cache.ttl))

\* C11 witness: the second validate() on a caching validator whose chain is an
\* unnamed rule followed by a named one: the named rule is answered from the
\* cache, the unnamed one is invoked again
C11_Witness ==
    /\ opts.cache /\ last.n = 2 /\ last.api = "validate" /\ last.nrules = 2
    /\ rules[1].name = <<>> /\ rules[2].name # <<>>
    /\ last.reached = <<1, 2>> /\ last.looked = <<2>> /\ last.invoked = <<1>>
    /\ last.hits = 1

-----------------------------------------------------------------------------
(* Claims about empty and required values (under SpecEmpty) *)

EmptyValues == {Null, Undefined, Str(StrEmpty)}

\* C3: if the chain has a rule with required = true at any position, then
\* validate(v) and validateSync(v) with v null, undefined or '' return
\* { valid: false, code: 'REQUIRED' }, invoke no predicate and make no cache
\* get or set.
C3_RequiredShortCircuits ==
    (/\ last.kind # "none"
     /\ last.value \in EmptyValues
     /\ \E i \in 1..last.nrules : rules[i].required)
        => /\ last.kind = "result"
           /\ ~last.result.valid
           /\ last.result.code = "REQUIRED"
           /\ last.invoked = <<>>
           /\ last.gets = 0
           /\ last.sets = 0

\* C3 witness: '' validated against a chain whose second rule is the required
\* one, after an optional named rule whose predicate would have rejected it
C3_Witness ==
    /\ last.kind = "result" /\ last.value = Str(StrEmpty) /\ last.nrules = 2
    /\ ~rules[1].required /\ rules[1].kind = "bad" /\ rules[2].required
    /\ last.result.code = "REQUIRED" /\ last.invoked = <<>>

\* C4: a chain with a predicate that rejects empty values (rules.required, or
\* requiredIf(path) when formData[path] has a value) returns valid = false from
\* validate('').
C4_EmptyRejected ==
    (/\ last.api = "validate"
     /\ last.value = Str(StrEmpty)
     /\ \E i \in 1..last.nrules :
           /\ rules[i].kind \in {"required", "requiredIf"}
           /\ ~Predicate(rules[i], last.value, last.ctx).res.valid)
        => ~last.result.valid

-----------------------------------------------------------------------------
(* Claims about cached validation (under SpecCached) *)

\* this step is a call that validates, against the same non-empty chain of
\* named rules, the value the call before it validated (the clock may have
\* advanced in between)
SameAgain ==
    /\ opts.cache
    /\ \A i \in 1..Len(rules) : rules[i].name # <<>>
    /\ last.n >= 1
    /\ last'.n = last.n + 1
    /\ last'.value = last.value
    /\ last'.nrules = last.nrules
    /\ last.nrules >= 1

\* the second of two such calls returns an equal result, invokes no predicate
\* and finds every rule it reaches in the cache
Repeats ==
    /\ last'.kind = "result"
    /\ last'.result = last.result
    /\ last'.invoked = <<>>
    /\ last'.hits >= 1
    /\ last'.hits = last'.gets

\* on a single-rule chain and a fresh cache, the statistics after the second call
FreshPairStats ==
    (last.n = 1 /\ last.nrules = 1)
        => /\ getStats(cache').hits = 1
           /\ getStats(cache').misses = 1
           /\ getStats(cache').hitRate = 5000
           /\ getStats(cache').size = 1

\* C6 as stated: with caching enabled and a chain of named rules, validating
\* the same non-empty value twice in succession returns equal results, invokes
\* no predicate during the second call, and the second call is a cache hit
\* (single-rule chain on a fresh cache: hits 1, misses 1, hit rate 50.00%, size 1).
C6_AsStated == [][SameAgain => (Repeats /\ FreshPairStats)]_vars

\* C6 amended: the same, provided the first call evicted no cache entry and
\* the second call met no entry whose ttl had lapsed.
C6_RepeatHitsCache ==
    [][(SameAgain /\ ~last.evicted /\ ~last'.lapsed) => (Repeats /\ FreshPairStats)]_vars

\* C6 witness: a two-rule chain validated twice with the same value: two
\* misses and no eviction in the first call, two hits and no predicate invoked
\* in the second
C6_Witness ==
    /\ last.n = 2 /\ last.nrules = 2 /\ Len(rules) = 2
    /\ last.hits = 2 /\ last.gets = 2 /\ last.invoked = <<>> /\ ~last.lapsed
    /\ cache.hits = 2 /\ cache.misses = 2 /\ Len(cache.entries) = 2

-----------------------------------------------------------------------------
(* Claims about cross-field validation (under SpecCross) *)

\* C7: a chain containing matchField(path) returns valid exactly when the
\* validated (non-empty) value equals formData[path] of that same call,
\* whatever calls came before, also when the rule is named and results are
\* cached.
C7_MatchFieldFollowsFormData ==
    (/\ last.kind = "result"
     /\ ~isEmpty(last.value)
     /\ \E i \in 1..last.nrules : rules[i].kind = "matchField")
        => (last.result.valid <=> last.value = getFieldValue("p", last.ctx))

-----------------------------------------------------------------------------
(* Claims about the RuleCache (under SpecCache) *)

\* the keys of the Map, in insertion order
StoredKeys == [i \in 1..Len(cache.entries) |-> cache.entries[i].key]

\* the last n elements of a sequence (all of it when it is shorter)
LastN(seq, n) ==
    IF Len(seq) <= n THEN seq ELSE SubSeq(seq, Len(seq) - n + 1, Len(seq))

\* every set() so far stored a key no earlier set() had stored
DistinctSets ==
    \A i, j \in 1..Len(setLog.keys) : i # j => setLog.keys[i] # setLog.keys[j]

\* get()/has() would report the key: it is stored and its ttl has not lapsed
Visible(key) ==
    \E i \in 1..Len(cache.entries) :
        cache.entries[i].key = key /\ ~Lapsed(cache.entries[i], now)

C9_GetAfterTtl ==
    (cop.op = "get" /\ cop.on /\ cop.late)
        => /\ ~cop.found
           /\ ~cop.stored
           /\ cop.dsize = 0 - 1
           /\ cop.dmisses = 1
           /\ cop.dhits = 0

\* C9 witness: a get() met a stored entry older than the ttl
C9_Witness == cop.op = "get" /\ cop.on /\ cop.late

\* C10 as stated: get()/has() report an entry only if its expireAt is absent
\* or strictly later than the clock.
C10_AsStated ==
    (cop.op \in {"get", "has"} /\ cop.found) => cop.rel \in {"never", "future"}

\* C10 amended: get()/has() report an entry only if its expireAt is absent or
\* not earlier than the clock (an entry is still reported when expireAt = now).
C10_VisibleUntilExpiry ==
    (cop.op \in {"get", "has"} /\ cop.found) => cop.rel \in {"never", "future", "now"}

\* C10 witness: has() reports an entry at the very instant expireAt = now
C10_Witness == cop.op = "has" /\ cop.found /\ cop.rel = "now"

-----------------------------------------------------------------------------
(* Claims about rule order (under SpecOrder) *)

\* the rules of the latest call's chain whose predicate finds the value invalid
Failing == {i \in 1..last.nrules : ~Predicate(rules[i], last.value, last.ctx).res.valid}

\* the first of them in insertion order
FirstFailing == CHOOSE i \in Failing : \A j \in Failing : i <= j

\* the indices 1..n in order
UpTo(n) == [k \in 1..n |-> k]

-----------------------------------------------------------------------------
(* Claims about batch validation (under SpecBatch) *)

\* the batch call has returned
BatchEnded == par.phase \in {"batched", "joined"}

\* C13: for every list of values and every chain of pure predicates, with or
\* without a cache, under every order in which the validate() calls resume,
\* validateParallel returns what validateBatch returns from the same state:
\* results of the length of the list, in input order, with the same result for
\* each item; failures is the in-order sub-list of the invalid items and valid
\* holds exactly when failures is empty.
C13_ParallelMatchesBatch ==
    BatchEnded
        => /\ par.out.kind = "result"
           /\ Len(par.out.results) = Len(par.values)
           /\ \A k \in 1..Len(par.values) :
                 /\ par.out.results[k].value = par.values[k]
                 /\ par.out.results[k].result = par.sequential.results[k].result
           /\ par.out.failures = Failures(par.out.results)
           /\ par.out.valid <=> par.out.failures = <<>>

-----------------------------------------------------------------------------
(* Claims about the onError hook (under Spec) *)

\* what executeRule hands back for the rule the latest call invoked last on
\* the same validator configured without a hook
Hookless ==
    executeRuleWith("none", LastInvoked, last.value, last.ctx, last.api = "validate")

\* the latest call invoked the predicate of the last rule it reached
EndedAtInvoked ==
    /\ last.n > 0 /\ last.invoked # <<>>
    /\ last.reached[Len(last.reached)] = last.invoked[Len(last.invoked)]

\* C14: whatever the onError hook does, validate() and validateSync() end as
\* they end on the same validator without a hook: a call that invoked the
\* predicate of the last rule it reached returns the result, or raises the
\* error, that the hookless executeRule yields for that rule.
C14_HookInert ==
    EndedAtInvoked
        => IF Hookless.threw
           THEN last.kind = "error" /\ last.err = Hookless.err
           ELSE /\ last.kind = "result"
                /\ last.result.valid = Hookless.res.valid
                /\ ~Hookless.res.valid
                      => last.result = mergeRuleMessage(Hookless.res, LastInvoked,
                                                        last.value, last.ctx)

-----------------------------------------------------------------------------
(* Claims about the ResultPool (under SpecPool) *)

\* C15: in every reachable state of a pool with maxSize = n, for every
\* initialSize, the free list holds at most n objects.
C15_FreeListBounded == PoolSize(pool) <= pool.maxSize

\* C17: every object returned by acquire(), freshly created or reused after
\* any earlier use and release, has valid = false and message, code and meta
\* undefined at its return.
C17_AcquiredIsBlank ==
    pool.got.o # 0 => pool.got.fields = createResult(FALSE, "", "", NoMeta)

\* C17 witness: acquire() has handed out again an object that a caller had
\* written into and released
C17_Witness ==
    /\ pool.got.reused /\ pool.got.o \in pool.written
    /\ pool.releasedCount > 0
    /\ pool.heap[pool.got.o] = createResult(FALSE, "", "", NoMeta)

-----------------------------------------------------------------------------
(* Claims about pooled validation (under SpecPooled) *)

\* C16: with pooling enabled, every result object the Validator acquires from
\* the pool is eventually released back to the pool by the executor, without a
\* release call from the caller.
C16_AcquiredEventuallyReleased == (pool.lent # {}) ~> (pool.lent = {})

-----------------------------------------------------------------------------
(* Claims about schema validation (under SpecSchema) *)

\* the fields of the errors the latest validate() reported
ErrorFields == {sch.out.errors[k].field : k \in 1..Len(sch.out.errors)}

\* C18: SchemaValidator.validate always resolves with a complete result and
\* never rejects, for every record and schema; a field whose custom validator
\* or transform throws or rejects is reported as an invalid result for that
\* field.
C18_SchemaNeverRejects ==
    sch.out.called
        => /\ sch.out.kind = "result"
           /\ sch.out.valid <=> sch.out.errors = <<>>
           /\ sch.out.raisedAt # "" => sch.out.raisedAt \in ErrorFields

\* where a field stands in the schema as it was written, and where in the
\* order of Object.entries
PlaceIn(entries, f) == CHOOSE k \in 1..Len(entries) : entries[k].field = f
DeclPlace(f) == PlaceIn(sch.decl, f)
EntryPlace(f) == PlaceIn(ObjectEntries(sch.decl), f)

\* the latest validate() ran with stopOnFirstError and resolved
StoppedCall == sch.out.called /\ sch.stopOnFirstError /\ sch.out.kind = "result"

-----------------------------------------------------------------------------
(* Claims about array fields (under SpecItems) *)

\* the element rule of the field tags, and the array the latest validate() got
TagItems == sch.decl[1].rules[1].items[1]
Tags == sch.data["tags"].s

\* the 0-based indices of the elements shorter than k
ShortItems(k) == {i \in 0..(Len(Tags) - 1) : Len(Tags[i + 1].s) < k}

\* C19: for an array field whose rule declares items: { type: 'string',
\* minLength: k }, validation fails whenever some element is shorter than k,
\* and the error message carries the index of the first failing element.
C19_ShortItemRejected ==
    (sch.out.called /\ TagItems.minLength # Absent /\ ShortItems(TagItems.minLength) # {})
        => /\ sch.out.kind = "result"
           /\ ~sch.out.valid
           /\ Len(sch.out.errors) = 1
           /\ sch.out.errors[1].field = "tags"
           /\ \A i \in ShortItems(TagItems.minLength) : sch.out.errors[1].message.index <= i
           /\ sch.out.errors[1].message.index \in ShortItems(TagItems.minLength)

-----------------------------------------------------------------------------
(* Claims about the result of schema validation (under SpecSchema) *)

\* the latest validate() resolved with a result
Resolved == sch.out.called /\ sch.out.kind = "result"

\* the errors of the latest result whose field is f
ErrorsOf(f) == SelectSeq(sch.out.errors, LAMBDA e : e.field = f)

\* valid is true exactly when errors is empty, errors holds at most one error
\* per field, and errorMap[f] holds exactly the errors whose field is f, with
\* no bucket for a field without an error
ErrorsAgree ==
    /\ sch.out.valid <=> sch.out.errors = <<>>
    /\ \A f \in AllFields : Len(ErrorsOf(f)) <= 1
    /\ \A f \in AllFields : sch.out.errorMap[f] = ErrorsOf(f)

-----------------------------------------------------------------------------
(* Claims about defaults and transforms (under SpecFlow) *)

\* the validateField calls of the latest validate(), by their place in the log
Calls == 1..Len(sch.out.seen)

\* the rule a call ran
RuleAt(k) == sch.decl[DeclPlace(sch.out.seen[k].field)].rules[sch.out.seen[k].j]

\* the value the field of call k had before the rule of call k took it up
Incoming(k) ==
    IF sch.out.seen[k].j = 1 THEN sch.data[sch.out.seen[k].field]
    ELSE sch.out.seen[k - 1].value

\* a value after the transform of a rule, where the validator applies one
AfterTransform(value, rule) ==
    IF sch.autoTransform /\ rule.transform # "none"
    THEN applyTransform(value, rule.transform).value
    ELSE value

\* the value a field had when the validator left it: the one its last call saw
LastValue(f) ==
    sch.out.seen[CHOOSE k \in Calls :
                    /\ sch.out.seen[k].field = f
                    /\ \A m \in Calls : sch.out.seen[m].field = f => m <= k].value

\* call k took up an absent value under a rule that declares a default
TookDefault(k) == Incoming(k) = Undefined /\ RuleAt(k).default # Undefined

Expected(k) ==
    AfterTransform(IF TookDefault(k) THEN RuleAt(k).default ELSE Incoming(k), RuleAt(k))

\* every rule's checks saw the value its transform had produced, and without
\* autoTransform no transform step ran
TransformedFirst ==
    /\ \A k \in Calls :
          /\ sch.out.seen[k].value = Expected(k)
          /\ sch.out.seen[k].formData[sch.out.seen[k].field] = Expected(k)
    /\ ~sch.autoTransform
          => \A t \in 1..Len(sch.out.touched) : sch.out.touched[t].step # "transform"

-----------------------------------------------------------------------------
(* Claims about the checks of one field (under SpecChecks) *)

\* the order of the checks as the claim gives it
Claimed ==
    <<"required", "empty", "type", "min", "max", "pattern", "enum", "items", "validator">>

\* a check, taken alone, does not let the value pass on to the next check
Stops(check, value, rule) ==
    /\ Declared(check, value, rule)
    /\ Check(check, value, rule, NoContext).kind # "result"
          \/ ~Check(check, value, rule, NoContext).valid

\* the place in Claimed of the first check that stops the value
\* (Len(Claimed) + 1: none does)
FirstStop(value, rule) ==
    IF \E k \in 1..Len(Claimed) : Stops(Claimed[k], value, rule)
    THEN CHOOSE k \in 1..Len(Claimed) :
            /\ Stops(Claimed[k], value, rule)
            /\ \A n \in 1..(k - 1) : ~Stops(Claimed[n], value, rule)
    ELSE Len(Claimed) + 1

\* the smaller of two numbers
Least(a, b) == IF a < b THEN a ELSE b

\* C24: for each field rule the checks run in the fixed order required,
\* empty-skip, type, min, max, pattern, enum, items, custom validator: the
\* reported code is that of the first failing check in this order, and the
\* custom validator is invoked only when every earlier check passed and the
\* value is not empty.
C24_ChecksInOrder ==
    \A k \in Calls :
        LET call  == sch.out.seen[k]
            first == FirstStop(call.value, RuleAt(k))
            upTo  == SubSeq(Claimed, 1, Least(first, Len(Claimed)))
        IN  /\ call.ran = SelectSeq(upTo, LAMBDA c : Declared(c, call.value, RuleAt(k)))
            /\ (first <= Len(Claimed) /\ Claimed[first] # "empty")
                  => /\ ~call.valid
                     /\ call.code = Check(Claimed[first], call.value, RuleAt(k), NoContext).code
            /\ (first > Len(Claimed) \/ Claimed[first] = "empty") => call.valid
            /\ (\E n \in 1..Len(call.ran) : call.ran[n] = "validator")
                  => /\ first >= Len(Claimed)
                     /\ ~isEmpty(call.value)

\* C24 witness: a string that is not in the enum and fails the custom
\* validator too is reported as ENUM, and the validator was not invoked
C24_Witness ==
    /\ Resolved /\ Len(sch.out.seen) = 1
    /\ sch.decl[1].rules[1].enum # <<>> /\ sch.decl[1].rules[1].validator = "bad"
    /\ sch.decl[1].rules[1].type = "string"
    /\ sch.data["a"].t = "string" /\ sch.data["a"].s = StrY
    /\ sch.out.seen[1].code = "ENUM"
    /\ sch.out.seen[1].ran = <<"empty", "type", "enum">>
    /\ Len(sch.out.errors) = 1 /\ sch.out.errors[1].code = "ENUM"

-----------------------------------------------------------------------------
(* Claims about rule-level messages (under SpecMessage) *)

\* the rule at which the latest call ended with an invalid result
FailingRule == rules[last.reached[Len(last.reached)]]

\* the latest validate() ended with an invalid result that came from the cache
FailedFromCache ==
    /\ last.kind = "result" /\ last.api = "validate" /\ ~last.result.valid
    /\ last.reached # <<>>
    /\ last.reached[Len(last.reached)] \notin Range(last.invoked)

\* the cached result of the failing rule for the value of the latest call
CachedFailure ==
    cache.entries[IndexOf(cache.entries, KeyOf[last.value, FailingRule.name])].value

\* C25: on every validate() call in which the failing rule's result comes
\* from the cache, the returned message is resolved from the rule-level message
\* (a string, or a function applied to the current call's value and context)
\* exactly as on a cache miss; the cached entry keeps the predicate's own
\* message.
C25_MessageResolvedOnHit ==
    FailedFromCache
        => /\ last.result.message =
                 IF FailingRule.fn THEN FnMessage(last.value, last.ctx)
                 ELSE IF FailingRule.message # "" THEN FailingRule.message
                 ELSE CachedFailure.message
           /\ last.result = [CachedFailure EXCEPT !.message = last.result.message]
           /\ CachedFailure.message =
                 IF FailingRule.kind = "bad" THEN "MSG_CUSTOM" ELSE "MSG_FIELD_MISMATCH"

\* C25 witness: the second call of a chain whose rule has a message function
\* took the failure from the cache and returned the function's text for its
\* own context
C25_Witness ==
    /\ FailedFromCache /\ last.n = 2 /\ last.hits = 1
    /\ FailingRule.fn /\ FailingRule.kind = "bad"
    /\ last.value = Str(StrX) /\ last.ctx = FormData(Str(StrY))
    /\ last.result.message = "x vs y"
    /\ CachedFailure.message = "MSG_CUSTOM"

-----------------------------------------------------------------------------
(* Claims about a disabled cache (under SpecToggle) *)

\* the entries recorded at disable() that hold `key` and have not lapsed
StoredBefore(key) ==
    \E i \in 1..Len(setLog.frozen) :
        setLog.frozen[i].key = key /\ ~Lapsed(setLog.frozen[i], now)

\* C26: a get() or set() step on a disabled cache leaves the stored entries as
\* they are, and such a get() returns absent; a get() after enable(), before
\* anything else is stored, returns a result exactly for the keys whose
\* entries were stored at disable() and have not lapsed.
C26_DisabledThenRestored ==
    [][\A key \in LifeKeys :
        /\ (~cache.enabled /\ Set(key)) => cache'.entries = cache.entries
        /\ (~cache.enabled /\ GetUpTo(key, MaxReads + 1))
               => cache'.entries = cache.entries /\ ~cop'.found
        /\ (setLog.phase = "reenabled" /\ GetUpTo(key, MaxReads + 1))
               => (cop'.found <=> StoredBefore(key))]_vars

\* C26 witness: of two get() calls one was answered from a cache that had been
\* disabled and enabled again since its only set(), the other went uncounted
\* on the disabled cache
C26_Witness ==
    /\ setLog.phase = "reenabled" /\ cache.enabled
    /\ cop.op = "get" /\ cop.n = 2 /\ cop.found /\ cop.on
    /\ cache.hits = 1 /\ cache.misses = 0
    /\ Len(setLog.keys) = 1 /\ Keys(setLog.frozen) = {cop.key}

-----------------------------------------------------------------------------
(* Claims about the statistics of a cache (under SpecStats) *)

\* a step that is a get() of the key
GetStep == GetUpTo(StrA, MaxReads + 1)

\* hitRate is hits / (hits + misses) as a percentage rounded to two decimals,
\* 0 when both counters are zero
RateOf(c) ==
    LET total == c.hits + c.misses
        rate  == getStats(c).hitRate
    IN  IF total = 0 THEN rate = 0
        ELSE /\ 2 * (rate * total - c.hits * 10000) <= total
             /\ 2 * (c.hits * 10000 - rate * total) <= total

\* C27: every get() that returns a stored result adds one to hits, every get()
\* that returns absent (key missing, entry lapsed or cache disabled) adds one
\* to misses, no step other than get(), clear() and resetStats() changes
\* either counter, and hitRate is hits / (hits + misses) as a percentage.
C27_CountersFollowGets ==
    [][/\ (GetStep /\ cop'.found)
              => cache'.hits = cache.hits + 1 /\ cache'.misses = cache.misses
       /\ (GetStep /\ ~cop'.found)
              => cache'.misses = cache.misses + 1 /\ cache'.hits = cache.hits
       /\ (~GetStep /\ ~Clear /\ ~ResetStats)
              => cache'.hits = cache.hits /\ cache'.misses = cache.misses
       /\ RateOf(cache')]_vars

-----------------------------------------------------------------------------
(* Claims about the size of a cache (under SpecBound) *)

\* C28: a cache created with maxSize = n, n >= 1, never holds more than n
\* entries, whatever set/get/has/delete/clear/cleanExpired/enable/disable
\* calls and validations through a validator have been made on it.
C28_SizeWithinMax ==
    cache.maxSize >= 1 => getStats(cache).size <= getStats(cache).maxSize

\* C28 witness: a full cache whose directly stored entry made way for the
\* result stored by a validation
C28_Witness ==
    /\ cache.maxSize >= 1 /\ Len(cache.entries) = cache.maxSize
    /\ setLog.keys = <<StrA>> /\ StrA \notin Keys(cache.entries)
    /\ last.n >= 1 /\ last.evicted /\ last.sets = 1
    /\ KeyOf[Str(StrX), StrA] \in Keys(cache.entries)

-----------------------------------------------------------------------------
(* Claims about destroying a cache (under SpecSweep) *)

\* C29: once destroy() has been called on a cache created with ttl and
\* autoCleanup, the timer's sweep never runs again, and the cache holds no
\* entries and its hit and miss counters are zero.
C29_DestroyedIsQuiet ==
    [][/\ setLog'.destroyed
           => /\ cache'.entries = <<>>
              /\ cache'.hits = 0 /\ cache'.misses = 0
              /\ ~cache'.timer
       /\ (setLog.destroyed /\ setLog'.destroyed) => setLog'.beat = setLog.beat
       /\ setLog.destroyed => ~ENABLED Sweep]_vars

\* C29 witness: a cache whose timer had swept a lapsed entry and that had
\* answered a get() was destroyed, and the clock ran on afterwards
C29_Witness ==
    /\ setLog.destroyed /\ setLog.swept # {} /\ cop.n >= 1
    /\ Len(setLog.keys) >= 2 /\ now = MaxClock

-----------------------------------------------------------------------------
(* Claims about the instances handed to a validator (under SpecGiven) *)

\* C30: a validator created with createValidator({ cacheInstance: c }) looks
\* every named rule it reaches up in c and stores the results it computes in
\* c, and one created with createValidator({ poolInstance: p }) takes the
\* result objects it makes from p.
C30_GivenInstancesUsed ==
    (last.n >= 1 /\ last.kind = "result")
        => /\ last.looked = last.reached
           /\ last.stored = last.invoked
           /\ last.stored # <<>>
                  => KeyOf[last.value, rules[last.stored[Len(last.stored)]].name]
                         \in Keys(cache.entries)
           /\ pool.acquiredCount >= last.created

-----------------------------------------------------------------------------
(* Claims about cache keys (under SpecKeys) *)

\* the two latest generateKey() calls were for one value and one rule name
SameValueAndName ==
    /\ gen.prev.made /\ gen.latest.made
    /\ gen.prev.value = gen.latest.value
    /\ gen.prev.name = gen.latest.name

\* C31: for a fixed value and rule name, generateKey returns different keys
\* for any two different params arguments, an absent params and a supplied one
\* included.
C31_ParamsTellKeysApart ==
    (SameValueAndName /\ gen.prev.params # gen.latest.params)
        => gen.prev.key # gen.latest.key

-----------------------------------------------------------------------------
(* Claims about throttling (under SpecThrottle) *)

\* C32: the underlying validate() of a validator wrapped by
\* throttle(validator, Limit) with the default options is started at most once
\* within any time window of length Limit: any two of its starts are at least
\* Limit apart.
C32_OneStartPerWindow ==
    \A i, j \in 1..Len(thr.starts) :
        i < j => thr.starts[j] - thr.starts[i] >= Limit

-----------------------------------------------------------------------------
(* Claims about caching and value types (under SpecTyped) *)

\* the result of the chain from rule i on, without a cache: the first failed
\* required check or invalid verdict, else valid
RECURSIVE PlainFrom(_, _)
PlainFrom(i, value) ==
    IF i > Len(rules) THEN createResult(TRUE, "", "", NoMeta)
    ELSE IF checkRequired(value, rules[i], NoContext).failed
    THEN checkRequired(value, rules[i], NoContext).res
    ELSE IF isEmpty(value) THEN PlainFrom(i + 1, value)
    ELSE IF Predicate(rules[i], value, NoContext).res.valid THEN PlainFrom(i + 1, value)
    ELSE Predicate(rules[i], value, NoContext).res

\* C33: for a chain of pure, context-independent predicates with pairwise
\* distinct rule names, every validate() call of a validator, with caching or
\* without, returns the valid flag and the code that the chain without a cache
\* gives for the value, whatever the type of the value.
C33_CacheIsTransparent ==
    (last.n >= 1 /\ last.nrules = Len(rules))
        => /\ last.kind = "result"
           /\ last.result.valid = PlainFrom(1, last.value).valid
           /\ last.result.code = PlainFrom(1, last.value).code

-----------------------------------------------------------------------------
(* Claims about rules that share a name (under SpecNamesake) *)

\* the verdict of the predicate of the i-th rule on the value of the latest call
OwnVerdict(i) == Predicate(rules[i], last.value, last.ctx).res.valid

\* C34: in a chain that may hold several rules of one name with different
\* predicates, every rule gives the verdict of its own predicate and never the
\* cached verdict of a namesake: a call is valid exactly when the predicate of
\* every rule it reached accepts the value.
C34_NamesakesKeepOwnVerdict ==
    (last.n >= 1 /\ last.kind = "result" /\ last.nrules = Len(rules))
        => (last.result.valid <=> \A k \in 1..Len(last.reached) : OwnVerdict(last.reached[k]))

-----------------------------------------------------------------------------
(* Claims about cached faults (under SpecFaults) *)

\* cache c holds, at time t, an unlapsed RULE_ERROR result for the value under
\* the name of rule i
HoldsError(c, value, i, t) ==
    /\ c.enabled
    /\ rules[i].name # <<>>
    /\ \E k \in 1..Len(c.entries) :
          /\ c.entries[k].key = KeyOf[value, rules[i].name]
          /\ ~Lapsed(c.entries[k], t)
          /\ c.entries[k].value.code = "RULE_ERROR"

\* a call of validate() or validateSync() is made in this step
CallStep == last'.n = last.n + 1

\* C35: when a named rule's predicate throws or rejects and the call ends with
\* the RULE_ERROR result, that result is stored in the cache; and a later call
\* with the same value that finds the entry (not lapsed, not evicted earlier in
\* the call) returns RULE_ERROR without running the predicate and without
\* invoking the onError hook
C35_ErrorResultIsCached ==
    [][CallStep =>
        /\ (/\ last'.kind = "result"
            /\ last'.raised
            /\ last'.result.code = "RULE_ERROR")
              => /\ HoldsError(cache', last'.value, last'.reached[Len(last'.reached)], now)
                 /\ last'.stored # <<>>
                 /\ last'.stored[Len(last'.stored)] = last'.reached[Len(last'.reached)]
        /\ \A i \in 1..Len(rules) :
              (/\ HoldsError(cache, last'.value, i, now)
               /\ \E k \in 1..Len(last'.reached) : last'.reached[k] = i
               /\ ~last'.evicted)
                 => /\ last'.kind = "result"
                    /\ last'.result.code = "RULE_ERROR"
                    /\ ~last'.result.valid
                    /\ \A k \in 1..Len(last'.invoked) : last'.invoked[k] # i
                    /\ last'.reached[Len(last'.reached)] = i
                    /\ last'.hooked = <<>>
                    /\ ~last'.raised]_vars

\* the second call found the stored RULE_ERROR of the throwing rule: nothing
\* was run, the hook was not invoked
C35_Witness ==
    /\ last.n = 2
    /\ last.api = "validate"
    /\ opts.onError = "returns"
    /\ Len(rules) = 1
    /\ rules[1].kind = "throwErr"
    /\ last.kind = "result"
    /\ last.result.code = "RULE_ERROR"
    /\ last.hits = 1
    /\ last.invoked = <<>>
    /\ last.hooked = <<>>
    /\ HoldsError(cache, last.value, 1, now)

\* rule i answers with a promise
IsAsyncRule(i) == rules[i].kind \in {"pOk", "pBad", "rejectErr", "rejectNull"}

\* C36: a validateSync() call that invokes an asynchronous predicate stores
\* nothing for that rule, and a validate() call on a chain of rules that all
\* accept the value (the asynchronous one included) returns valid
C36_SyncOnAsyncStoresNothing ==
    [][CallStep =>
        /\ last'.api = "validateSync"
              => \A k \in 1..Len(last'.invoked) :
                    IsAsyncRule(last'.invoked[k])
                        => \A s \in 1..Len(last'.stored) :
                              last'.stored[s] # last'.invoked[k]
        /\ (/\ last'.api = "validate"
            /\ \A i \in 1..Len(rules) : rules[i].kind \in {"pOk", "ok"})
              => /\ last'.kind = "result"
                 /\ last'.result.valid]_vars

-----------------------------------------------------------------------------
(* Claims about set() on a present key (under SpecCache) *)

\* C37: set(key, v) on a key that is already present leaves the key present
\* with the value v and leaves every other key present, whatever the number of
\* entries
C37_SetOnPresentKeepsOthers ==
    [][\A key \in CacheKeys :
          (/\ cache.enabled
           /\ key \in Keys(cache.entries)
           /\ Set(key))
             => /\ Keys(cache'.entries) = Keys(cache.entries)
                /\ cache'.entries[IndexOf(cache'.entries, key)].value = ResultValid]_vars

-----------------------------------------------------------------------------
(* Claims about double release and the reuse rate (under SpecPool) *)

\* the free list holds no object twice
FreeListDistinct(q) ==
    \A i, j \in 1..Len(q.free) : q.free[i] = q.free[j] => i = j

\* C38: whatever is acquired and released, and however often one object is
\* released, the free list never holds an object twice, and acquire() never
\* hands out an object that was handed out before and not released since
C38_NoObjectTwiceInFreeList ==
    /\ [](FreeListDistinct(pool))
    /\ [][Acquire => pool'.got.o \notin pool.lent]_vars

\* C39 (under SpecRate): getStats().reuseRate lies between 0% and 100% and is
\* the share, among the acquire() calls that acquiredCount counts, of those
\* served by an object of the free list ('0%' when none is counted)
C39_ReuseRateIsShare ==
    /\ PoolReuseRate(pool) >= 0
    /\ PoolReuseRate(pool) <= 10000
    /\ PoolReuseRate(pool) = IF pool.acquiredCount > 0
                             THEN Percent(pool.reused, pool.acquiredCount)
                             ELSE 0

-----------------------------------------------------------------------------
(* Claims about the caller's record (under SpecSchema) *)

\* the fields that the call gave a default or a transformed value
Rewritten == {sch.out.touched[i].field :
                 i \in {n \in 1..Len(sch.out.touched) :
                           sch.out.touched[n].step \in {"default", "transform"}}}

====
